---- MODULE Spec2Model ----
(***************************************************************************)
(* gamdam: the download pipeline of src/src/lib.rs (Gamdam::download and   *)
(* its three joined tasks), the scoped subprocess teardown of              *)
(* src/src/annex.rs, and the commit gate and exit code of src/src/main.rs. *)
(*                                                                         *)
(* The three git-annex workers are the environment.  What a worker writes  *)
(* is drawn at the step where the program reads it: the pipes are FIFO and *)
(* a worker may answer a request at any time after it was written, so the  *)
(* records a task can read at a suspension point are exactly the records   *)
(* drawn there.                                                            *)
(***************************************************************************)
EXTENDS Integers, Sequences, FiniteSets, TLC

\* ------------------------------------------------------------------ bounds

\* Longest input (number of Downloadables read from the input file).
MaxItems == 2

\* ------------------------------------------------------------------- values

\* Option::None, for optional strings (key, file, failures path).
None == "None"

\* Result<(), AnnexError>: Ok(()) or Err(AnnexError(messages)).
Ok == [ok |-> TRUE, msgs |-> <<>>]
Err(m) == [ok |-> FALSE, msgs |-> m]

\* Option<Result<(), AnnexError>>
NoResult == [some |-> FALSE, val |-> Ok]
Some(r) == [some |-> TRUE, val |-> r]

Paths == {"a", "b"}
Keys == {"K1"}
\* error-messages lists a worker may report
ErrMsgs == {<<"e1">>}

\* Downloadable: metadata is the set of its (field, values) entries;
\* extra_urls is a list and may repeat a URL.
Downloadable(p, u, md, xs) ==
    [path |-> p, url |-> u, metadata |-> md, extra_urls |-> xs]

\* The Downloadables an input line may hold.
Catalogue ==
    { Downloadable("a", "u1", {<<"f", <<"v">>>>}, <<"x1", "x2">>),
      Downloadable("a", "u2", {}, <<>>),
      Downloadable("b", "u3", {}, <<"x1", "x1">>) }

RECURSIVE SeqsUpTo(_, _)
SeqsUpTo(S, n) ==
    IF n = 0 THEN {<<>>}
    ELSE LET shorter == SeqsUpTo(S, n - 1)
         IN  shorter \cup {Append(s, x) : s \in {t \in shorter : Len(t) = n - 1}, x \in S}

Inputs == SeqsUpTo(Catalogue, MaxItems)

\* ------------------------------------------------- src/src/lib.rs: results

\* DownloadResult.urls_added is a map: inserting a URL again replaces its entry.
insert(m, u, v) == {e \in m : e[1] # u} \cup {<<u, v>>}

successful_download(downloadable, key) ==
    [downloadable |-> downloadable, download |-> Ok, key |-> key,
     metadata_added |-> NoResult, urls_added |-> {}]

\* failed_download keeping a key, as successful_download does.
failed_download_keyed(downloadable, err) ==
    [downloadable |-> downloadable, download |-> Err(err), key |-> "K1",
     metadata_added |-> NoResult, urls_added |-> {}]

failed_download(downloadable, err) ==
    [downloadable |-> downloadable, download |-> Err(err), key |-> None,
     metadata_added |-> NoResult, urls_added |-> {}]

success(r) ==
    /\ r.download.ok
    /\ ~(r.metadata_added.some /\ ~r.metadata_added.val.ok)
    /\ \A e \in r.urls_added : e[2].ok

\* ---------------------------------------------- src/src/lib.rs: InProgress

\* The map is the set of its values; paths are unique in it.
has(data, path) == \E d \in data : d.path = path

\* An add that never finds the entry occupied.
add_ok_always(data, dl) == TRUE

\* An add that returns true and stores nothing.
add_nothing(data, dl) == data

\* InProgress::add: the value returned, and the map afterwards.
add_ok(data, dl) == ~has(data, dl.path)
add(data, dl) == IF add_ok(data, dl) THEN data \cup {dl} ELSE data

\* A pop that leaves the entry in the map.
pop_keep(data, file) == data

\* InProgress::pop: Ok exactly when the file has an entry.
pop_ok(data, file) == has(data, file)
pop_value(data, file) == CHOOSE d \in data : d.path = file
pop(data, file) == {d \in data : d.path # file}

\* ------------------------------------------------ add-URL output records

AddURLInput(dl) == [url |-> dl.url, path |-> dl.path]

Completion(file, ok, key, msgs) ==
    [type |-> "Completion", file |-> file, success |-> ok, key |-> key,
     error_messages |-> msgs]

Progress(file) ==
    [type |-> "Progress", file |-> file, success |-> TRUE, key |-> None,
     error_messages |-> <<>>]

\* AddURLOutput::file(): the action's file, if any.
file(r) == r.file

\* AddURLOutput::check(): Err(AnnexError(error_messages)) for a Completion
\* that did not succeed, Ok(self) otherwise.
check(r) ==
    IF r.type = "Completion" /\ ~r.success THEN Err(r.error_messages) ELSE Ok

\* Responses are [success, error_messages], the AnnexResult of the output.
\* MetadataOutput::check
MetadataOutput_check(o) == IF o.success THEN Ok ELSE Err(o.error_messages)

\* RegisterURLOutput::check
RegisterURLOutput_check(o) == IF o.success THEN Ok ELSE Err(o.error_messages)

\* Responses a metadata or register-URL worker may give to a request.
Responses ==
    {[success |-> TRUE, error_messages |-> <<>>]}
        \cup {[success |-> FALSE, error_messages |-> m] : m \in ErrMsgs}

\* ------------------------------------------------- src/src/main.rs: values

\* Strings that are inspected character by character are tuples of characters.
Placeholder == <<"{", "d", "o", "w", "n", "l", "o", "a", "d", "e", "d", "}">>

RECURSIVE join(_, _)
join(parts, sep) ==
    IF Len(parts) = 0 THEN <<>>
    ELSE IF Len(parts) = 1 THEN parts[1]
    ELSE parts[1] \o sep \o join(Tail(parts), sep)

\* Commit messages as the literal pieces around their placeholders.
MessageParts ==
    { << <<"n", "o", "n", "e">> >>,
      << <<"D", " ">>, <<" ", "U", "R", "L", "s">> >>,
      << <<"{">>, <<>>, <<"}">> >> }

Messages == {join(parts, Placeholder) : parts \in MessageParts}

\* str::replace: every non-overlapping match, left to right.
RECURSIVE replace(_, _, _)
replace(s, from, to) ==
    IF Len(s) < Len(from) THEN s
    ELSE IF SubSeq(s, 1, Len(from)) = from
         THEN to \o replace(SubSeq(s, Len(from) + 1, Len(s)), from, to)
         ELSE <<s[1]>> \o replace(Tail(s), from, to)

Digits == <<"0", "1", "2", "3", "4", "5", "6", "7", "8", "9">>

\* usize::to_string
RECURSIVE to_string(_)
to_string(n) ==
    IF n < 10 THEN <<Digits[n + 1]>>
    ELSE to_string(n \div 10) \o <<Digits[(n % 10) + 1]>>

\* The commit block entered whenever something was downloaded.
commit_gate_unsaved(report, a) == report.successful # <<>>

\* The condition of main's commit block.
commit_gate(report, a) ==
    /\ report.successful # <<>>
    /\ a.save
    /\ (~a.no_save_on_fail \/ report.failed = <<>>)

commit_message(report, a) ==
    replace(a.message, Placeholder, to_string(Len(report.successful)))

\* The final expression without its test of report.failed.
exit_code_success(report) == 0

\* The process exit code of main's final expression.
exit_code(report) == IF report.failed = <<>> THEN 0 ELSE 1

\* write_failures: one line per failed item, its input Downloadable.
failure_lines_results(failed) == failed

\* The lines write_failures sends: item.downloadable for each failed item.
failure_lines(failed) == [i \in 1..Len(failed) |-> failed[i].downloadable]

\* write_failures(path, failures): File::create, then one send (write and
\* flush) of item.downloadable per failed item; `created` is whether
\* File::create succeeded and n the number of sends that succeeded before the
\* first error, if any.
write_failures(failed, created, n) ==
    [created |-> created,
     lines |-> IF created THEN SubSeq(failure_lines(failed), 1, n) ELSE <<>>,
     result |-> IF created /\ n = Len(failed) THEN "Ok" ELSE "Err"]

Arguments ==
    [save : BOOLEAN, no_save_on_fail : BOOLEAN, message : Messages,
     failures : {None, "F"}]

\* std usize::MAX as far as the model's arithmetic goes: no length reaches
\* it and additions saturate at it.
usize_MAX == 2147483647

\* -------------------------------------------------------------------- state

VARIABLES
    items,      \* main: the Downloadables read from the input file
    args,       \* main: the parsed command-line Arguments
    mainPc,     \* main: where main is
    exitCode,   \* the process exit code, -1 while running
    commits,    \* messages of the `git commit -m` commands issued
    failuresFile, \* the --failures file: created?, its lines, write_failures' result
    dlPc,       \* download: where Gamdam::download is
    dlResult,   \* download: "none", or the joined result "Ok" / "Err"
    dlError,    \* download: the error that Err carries, <<>> when there is none
    procs,      \* the three subprocesses: [spawned, stdin_open, teardown]
    childEnd,   \* how the child of the teardown just made ended
    feed,       \* feed_addurl: [pc, idx]
    data,       \* InProgress.data
    reqs,       \* requests written to add-URL, Completion not yet read
    reader,     \* read_addurl: "run", "ok" or "err"
    chan,       \* the reader-to-post-processor channel: [queue, sender]
    pp,         \* add_metadata: [pc, cur, success, i, successful, failed]
    chatReq,    \* the chat request written and not yet answered, if any
    dropLog,    \* history: input positions discarded as duplicates
    sentLog,    \* history: requests written to add-URL
    readLog,    \* history: DownloadResults the reader sent, in order
    recvLog,    \* history: DownloadResults the post-processor received
    chatLog,    \* history: chats, [n, worker, key, arg, resp]
    tdLog,      \* history: teardown actions, in order
    lines,      \* blc: the byte strings handed to the encoder, in order
    wire,       \* blc: encoded bytes not yet read into the buffer
    buf,        \* blc: the decoder's buffer
    codec,      \* blc: BinaryLinesCodec [next_index, max_length, is_discarding]
    frames,     \* blc: what decode returned, in order, Ok(None) left out
    scanLog,    \* blc: history: the bytes searched for a newline, not discarding
    filepath,   \* filepath: [input, try_from, deserialize, again]
    ensure,     \* ensure_annex_repo: [pc, repo, fs, fs0, toplevel, git_dir, ran]
    in_progress, \* InProgress on its own: [data, calls]
    addurl_output \* AddURLOutput parsing: [input, parsed, output]


programVars ==
    <<items, args, mainPc, exitCode, commits, failuresFile, dlPc, dlResult,
      dlError, procs, childEnd, feed, data, reqs, reader, chan, pp, chatReq,
      dropLog, sentLog, readLog, recvLog, chatLog, tdLog>>

blcVars == <<lines, wire, buf, codec, frames, scanLog>>

\* The state of the library parts that are exercised on their own.
unitVars == <<blcVars, filepath, ensure, in_progress, addurl_output>>

\* What each part exercised on its own leaves alone.
exceptBlc == <<programVars, filepath, ensure, in_progress, addurl_output>>
exceptFilePath == <<programVars, blcVars, ensure, in_progress, addurl_output>>
exceptEnsure == <<programVars, blcVars, filepath, in_progress, addurl_output>>
exceptInProgress == <<programVars, blcVars, filepath, ensure, addurl_output>>
exceptAddURLOutput == <<programVars, blcVars, filepath, ensure, in_progress>>

vars == <<programVars, unitVars>>

mainVars == <<items, args, mainPc, exitCode, commits, failuresFile>>
taskVars == <<feed, data, reqs, reader, chan, pp, chatReq>>
logVars == <<dropLog, sentLog, readLog, recvLog, chatLog>>

Procs == {"addurl", "metadata", "registerurl"}

\* AnnexProcess::ERR_TIMEOUT, in seconds.
ERR_TIMEOUT == 3

\* A subprocess: spawned?, its stdin open?, the AnnexTerminator method that
\* in_context called on it and the timeout it passed, <<>> for None.
NoProc ==
    [spawned |-> FALSE, stdin_open |-> FALSE, teardown |-> "none",
     timeout |-> <<>>]

DefaultArguments ==
    [save |-> TRUE, no_save_on_fail |-> FALSE,
     message |-> join(<< <<"D", " ">>, <<" ", "U", "R", "L", "s">> >>, Placeholder),
     failures |-> None]

\* The --failures file before write_failures is called.
NoFile == [created |-> FALSE, lines |-> <<>>, result |-> "none"]

InitProgram(I, A) ==
    /\ items \in I
    /\ args \in A
    /\ mainPc = "start"
    /\ exitCode = -1
    /\ commits = <<>>
    /\ failuresFile = NoFile
    /\ dlPc = "idle"
    /\ dlResult = "none"
    /\ dlError = <<>>
    /\ procs = [p \in Procs |-> NoProc]
    /\ childEnd = "none"
    /\ feed = [pc |-> "start", idx |-> 1]
    /\ data = {}
    /\ reqs = <<>>
    /\ reader = "run"
    /\ chan = [queue |-> <<>>, sender |-> TRUE, receiver |-> TRUE]
    /\ pp = [pc |-> "recv", cur |-> <<>>, success |-> TRUE, i |-> 1,
             successful |-> <<>>, failed |-> <<>>]
    /\ chatReq = <<>>
    /\ dropLog = <<>>
    /\ sentLog = <<>>
    /\ readLog = <<>>
    /\ recvLog = <<>>
    /\ chatLog = <<>>
    /\ tdLog = <<>>

\* The codec before any use: BinaryLinesCodec::new() and empty buffers.
InitNoCodec ==
    /\ lines = <<>>
    /\ wire = <<>>
    /\ buf = <<>>
    /\ codec = [next_index |-> 0, max_length |-> usize_MAX,
                is_discarding |-> FALSE]
    /\ frames = <<>>
    /\ scanLog = <<>>

\* No path has been given to FilePath yet.
NoFilePath ==
    [input |-> <<>>, try_from |-> <<>>, deserialize |-> <<>>, again |-> <<>>]

\* ensure_annex_repo has not been called on its own.
NoEnsure ==
    [pc |-> "idle", repo |-> "top", fs |-> <<>>, fs0 |-> <<>>,
     toplevel |-> "", git_dir |-> "", ran |-> <<>>]

\* InProgress::new(), not called yet.
NoInProgress == [data |-> {}, calls |-> <<>>]

\* No line of add-URL's output has been given to the parser on its own.
NoAddURLOutput == [input |-> <<>>, parsed |-> FALSE, output |-> <<>>]

\* The parts exercised on their own, each at rest; `except` names the one
\* that is not.
InitUnits(except) ==
    /\ except = "blc" \/ InitNoCodec
    /\ except = "filepath" \/ filepath = NoFilePath
    /\ except = "ensure" \/ ensure = NoEnsure
    /\ except = "in_progress" \/ in_progress = NoInProgress
    /\ except = "addurl_output" \/ addurl_output = NoAddURLOutput

InitWith(I, A) == InitProgram(I, A) /\ InitUnits("none")

Init == InitWith(Inputs, {DefaultArguments})

Report == [successful |-> pp.successful, failed |-> pp.failed]

\* ------------------------------------------------------ src/src/main.rs: main

\* main returns Err(e): the process exits with code 1.
main_err ==
    /\ mainPc' = "err"
    /\ exitCode' = 1

main_start ==
    /\ mainPc = "start"
    /\ IF items = <<>>
       THEN mainPc' = "exit" /\ exitCode' = 0
       ELSE mainPc' = "ensure" /\ exitCode' = exitCode
    /\ UNCHANGED <<unitVars, items, args, commits, failuresFile, dlPc, dlResult, dlError, procs,
                   taskVars, logVars, tdLog, childEnd>>

\* ensure_annex_repo(&args.repo).await?
main_ensure ==
    /\ mainPc = "ensure"
    /\ \E ok \in BOOLEAN :
        IF ok
        THEN mainPc' = "download" /\ dlPc' = "spawn_addurl" /\ exitCode' = exitCode
        ELSE main_err /\ dlPc' = dlPc
    /\ UNCHANGED <<unitVars, items, args, commits, failuresFile, dlResult, dlError, procs,
                   taskVars, logVars, tdLog, childEnd>>

\* --------------------------------------- src/src/lib.rs: Gamdam::download

CloseStdin(ps, S) ==
    [q \in Procs |-> IF q \in S THEN [ps[q] EXCEPT !.stdin_open = FALSE] ELSE ps[q]]

\* AnnexProcess::new followed by `?`: on success the next scope is entered,
\* on failure the enclosing closure returns Err and drops the IO it holds.
spawn(p, here, okPc, errPc) ==
    /\ dlPc = here
    /\ \E ok \in BOOLEAN :
        IF ok
        THEN /\ procs' = [procs EXCEPT ![p] = [NoProc EXCEPT !.spawned = TRUE,
                                                             !.stdin_open = TRUE]]
             /\ dlPc' = okPc
             /\ UNCHANGED <<dlResult, dlError>>
        ELSE /\ procs' = CloseStdin(procs, Procs)
             /\ dlPc' = errPc
             /\ dlResult' = "Err"
             /\ dlError' = <<"Error spawning git-annex", p>>
    /\ UNCHANGED <<unitVars, mainVars, taskVars, logVars, tdLog, childEnd>>

\* A failed spawn of register-URL that leaves the scope of metadata without
\* its teardown.
spawn_registerurl_leak == spawn("registerurl", "spawn_registerurl", "tasks", "td_addurl")

spawn_addurl == spawn("addurl", "spawn_addurl", "spawn_metadata", "return")
spawn_metadata == spawn("metadata", "spawn_metadata", "spawn_registerurl", "td_addurl")
spawn_registerurl == spawn("registerurl", "spawn_registerurl", "tasks", "td_metadata")

\* The three tasks and what they hold, with the histories of their run.
Tasks ==
    [feed |-> feed, data |-> data, reqs |-> reqs, reader |-> reader,
     chan |-> chan, pp |-> pp, chatReq |-> chatReq, dropLog |-> dropLog,
     sentLog |-> sentLog, readLog |-> readLog, recvLog |-> recvLog,
     chatLog |-> chatLog, error |-> dlError]

\* The tasks once their futures are dropped with all they held; the
\* histories of the run, which no Report will carry, are discarded too.
NoTasks(f, r, p) ==
    [feed |-> [pc |-> f, idx |-> 1], data |-> {}, reqs |-> <<>>, reader |-> r,
     chan |-> [queue |-> <<>>, sender |-> FALSE, receiver |-> FALSE],
     pp |-> [pc |-> p, cur |-> <<>>, success |-> TRUE, i |-> 1,
             successful |-> <<>>, failed |-> <<>>],
     chatReq |-> <<>>, dropLog |-> <<>>, sentLog |-> <<>>, readLog |-> <<>>,
     recvLog |-> <<>>, chatLog |-> <<>>, error |-> <<>>]

Dropped(pc) == IF pc \in {"err", "panic"} THEN pc ELSE "dropped"

SetTasks(t) ==
    /\ feed' = t.feed
    /\ data' = t.data
    /\ reqs' = t.reqs
    /\ reader' = t.reader
    /\ chan' = t.chan
    /\ pp' = t.pp
    /\ chatReq' = t.chatReq
    /\ dropLog' = t.dropLog
    /\ sentLog' = t.sentLog
    /\ readLog' = t.readLog
    /\ recvLog' = t.recvLog
    /\ chatLog' = t.chatLog
    /\ dlError' = t.error

\* A join whose finished tasks keep the sink and the IO they were given.
try_join_keep(t) ==
    LET f == t.feed.pc
        r == t.reader
        p == t.pp.pc
        anyErr == "err" \in {f, r, p}
        allOk == f = "ok" /\ r = "ok" /\ p = "ok"
    IN  /\ dlPc' = IF anyErr \/ allOk THEN "td_registerurl" ELSE "tasks"
        /\ dlResult' = IF anyErr THEN "Err" ELSE IF allOk THEN "Ok" ELSE "none"
        /\ procs' = CloseStdin(procs, IF anyErr \/ f = "ok" THEN {"addurl"} ELSE {})
        /\ SetTasks(IF anyErr
                    THEN [NoTasks(Dropped(f), Dropped(r), Dropped(p))
                            EXCEPT !.error = t.error]
                    ELSE t)

\* tokio::try_join! after a poll that leaves the tasks at t: the first Err
\* ends the join at once and drops the other two futures; three Ok end it
\* with Ok.  A task's sink or IO is dropped when its future returns or is
\* dropped, which closes the worker's stdin.
try_join(t) ==
    LET f == t.feed.pc
        r == t.reader
        p == t.pp.pc
        anyErr == "err" \in {f, r, p}
        allOk == f = "ok" /\ r = "ok" /\ p = "ok"
    IN  /\ dlPc' = IF anyErr \/ allOk THEN "td_registerurl" ELSE "tasks"
        /\ dlResult' = IF anyErr THEN "Err" ELSE IF allOk THEN "Ok" ELSE "none"
        /\ procs' = CloseStdin(procs,
                        (IF anyErr \/ f = "ok" THEN {"addurl"} ELSE {})
                        \cup (IF anyErr \/ p = "ok"
                              THEN {"metadata", "registerurl"} ELSE {}))
        /\ SetTasks(IF anyErr
                    THEN [NoTasks(Dropped(f), Dropped(r), Dropped(p))
                            EXCEPT !.error = t.error]
                    ELSE t)

\* One poll of the joined tasks, leaving them at t.  A panic in a task
\* unwinds through download and main: the process exits with code 101.
poll(t) ==
    /\ dlPc = "tasks"
    /\ IF t.reader = "panic"
       THEN /\ mainPc' = "exit"
            /\ exitCode' = 101
            /\ dlPc' = "panic"
            /\ SetTasks(NoTasks("dropped", "panic", "dropped"))
            /\ UNCHANGED <<dlResult, procs>>
       ELSE /\ try_join(t)
            /\ UNCHANGED <<mainPc, exitCode>>
    /\ UNCHANGED <<unitVars, items, args, commits, failuresFile, tdLog, childEnd>>

\* ------------------------------------------------------------ feed_addurl

\* The items from position i on that `in_progress.add` refuses: they are
\* discarded with a warning, and no await lies between them.
RECURSIVE skip(_, _, _)
skip(its, d, i) ==
    IF i > Len(its) \/ add_ok(d, its[i]) THEN i ELSE skip(its, d, i + 1)

\* A feed loop that writes the request of an item it has not added.
feed_loop_unadded(t, i) ==
    LET j == skip(items, t.data, i)
        done == j > Len(items)
    IN  [t EXCEPT !.dropLog = @ \o [k \in 1..(j - i) |-> i + k - 1],
                  !.feed = [pc |-> IF done THEN "ok" ELSE "send", idx |-> j]]

\* `for dl in items { if in_progress.add(&dl) { send(..).await? } else
\* { warn } }` from position i up to the next await, or to the end of the
\* items and `Ok(())`.  The task is never suspended anywhere else.
feed_loop(t, i) ==
    LET j == skip(items, t.data, i)
        done == j > Len(items)
    IN  [t EXCEPT !.dropLog = @ \o [k \in 1..(j - i) |-> i + k - 1],
                  !.feed = [pc |-> IF done THEN "ok" ELSE "send", idx |-> j],
                  !.data = IF done THEN @ ELSE add(@, items[j])]

\* The first poll of feed_addurl.
feed_addurl_start ==
    /\ feed.pc = "start"
    /\ poll(feed_loop(Tasks, 1))

\* `addurl_sink.send(AddURLInput {..}).await?` completes: with Err the task
\* fails, with Ok the worker holds the request and the loop goes on.
feed_addurl_send ==
    /\ feed.pc = "send"
    /\ \E ok \in BOOLEAN :
        poll(IF ok
             THEN feed_loop([Tasks EXCEPT
                                !.reqs = Append(@, AddURLInput(items[feed.idx])),
                                !.sentLog = Append(@, AddURLInput(items[feed.idx]))],
                            feed.idx + 1)
             ELSE [Tasks EXCEPT !.feed.pc = "err",
                                !.error = <<"Error writing to the sink">>])

\* ------------------------------------------------------------ read_addurl

RemoveAt(s, k) == SubSeq(s, 1, k - 1) \o SubSeq(s, k + 1, Len(s))

\* A channel that hands out the newest result first.
send_front(ch, res) == [ch EXCEPT !.queue = <<res>> \o @]

\* `sender.send(res)` on an unbounded channel
send(ch, res) == [ch EXCEPT !.queue = Append(@, res)]

\* A reader that passes over a Completion whose file has no entry.
read_record_lenient(t, r) ==
    IF file(r) = None
    THEN [t EXCEPT !.reader = "err",
            !.error = <<"git-annex addurl outputted a line without a file">>]
    ELSE t

\* A reader that passes over every record without a file.
read_record_skip(t, r) ==
    IF file(r) = None \/ r.type = "Progress"
    THEN t
    ELSE IF ~pop_ok(t.data, file(r))
    THEN [t EXCEPT !.reader = "err",
            !.error = <<"No record found for download of", file(r)>>]
    ELSE LET downloadable == pop_value(t.data, file(r))
             res == IF check(r).ok
                    THEN successful_download(downloadable, r.key)
                    ELSE failed_download(downloadable, check(r).msgs)
         IN  [t EXCEPT !.data = pop(@, file(r)),
                       !.readLog = Append(@, res),
                       !.chan = send(@, res)]

\* The body of the reader's loop for one record r.
read_record(t, r) ==
    IF file(r) = None
    THEN [t EXCEPT !.reader = "err",
            !.error = <<"git-annex addurl outputted a line without a file">>]
    ELSE IF r.type = "Progress"
    THEN t
    ELSE IF ~pop_ok(t.data, file(r))
    THEN [t EXCEPT !.reader = "err",
            !.error = <<"No record found for download of", file(r)>>]
    ELSE LET downloadable == pop_value(t.data, file(r))
             res == IF check(r).ok
                    THEN successful_download(downloadable, r.key)
                    ELSE failed_download(downloadable, check(r).msgs)
         IN  IF t.chan.receiver
             THEN [t EXCEPT !.data = pop(@, file(r)),
                            !.readLog = Append(@, res),
                            !.chan = send(@, res)]
             ELSE \* `.unwrap()` of the Err that send returns
                  [t EXCEPT !.data = pop(@, file(r)), !.reader = "panic"]

\* try_next yields the Completion of a request the worker holds.
read_addurl_completion ==
    /\ reader = "run"
    /\ \E k \in 1..Len(reqs), ok \in BOOLEAN, key \in Keys \cup {None} :
        \E m \in IF ok THEN {<<>>} ELSE ErrMsgs :
            poll(read_record([Tasks EXCEPT !.reqs = RemoveAt(@, k)],
                             Completion(reqs[k].path, ok, key, m)))

\* try_next yields a Progress record, for a request the worker holds or
\* with `file: null`.
read_addurl_progress ==
    /\ reader = "run"
    /\ \E f \in {reqs[k].path : k \in 1..Len(reqs)} \cup {None} :
        poll(read_record(Tasks, Progress(f)))

\* try_next yields a Completion the worker was not asked for: for no file,
\* or for a file that is not in flight.
read_addurl_unrequested ==
    /\ reader = "run"
    /\ \E f \in {q \in Paths : ~pop_ok(data, q)} \cup {None}, ok \in BOOLEAN :
        poll(read_record(Tasks, Completion(f, ok, None,
                                           IF ok THEN <<>> ELSE <<"e1">>)))

\* try_next yields None: the worker closed its stdout.  The reader returns
\* Ok and drops the sender.
read_addurl_eof ==
    /\ reader = "run"
    /\ poll([Tasks EXCEPT !.reader = "ok", !.chan.sender = FALSE])

\* try_next yields Err: an I/O error, an over-long line, or a line that is
\* not an AddURLOutput.
read_addurl_error ==
    /\ reader = "run"
    /\ poll([Tasks EXCEPT !.reader = "err",
                !.error = <<"Error reading from git-annex", "addurl">>])

\* ----------------------------------------------------------- add_metadata

\* `successful.push(r)` / `failed.push(r)`
push(list, r) == Append(list, r)

\* The end of the loop body for r: `if success { successful.push(r) } else
\* { failed.push(r) }`, then back to `receiver.recv()`.
finish(r, ok) ==
    [pc |-> "recv", cur |-> <<>>, success |-> TRUE, i |-> 1,
     successful |-> IF ok THEN push(pp.successful, r) ELSE pp.successful,
     failed |-> IF ok THEN pp.failed ELSE push(pp.failed, r)]

\* `for u in &r.downloadable.extra_urls`, about to take the i-th URL.
url_stage(r, ok, i) ==
    IF i <= Len(r.downloadable.extra_urls)
    THEN [pp EXCEPT !.pc = "registerurl_send", !.cur = <<r>>, !.success = ok, !.i = i]
    ELSE finish(r, ok)

\* The loop body without its test of the key.
dispatch_keyless(r) ==
    IF ~r.download.ok
    THEN [pp EXCEPT !.failed = push(@, r)]
    ELSE IF r.downloadable.metadata # {}
    THEN [pp EXCEPT !.pc = "metadata_send", !.cur = <<r>>, !.success = TRUE]
    ELSE url_stage(r, TRUE, 1)

\* The loop body up to its first await, for a received r.
dispatch(r) ==
    IF ~r.download.ok
    THEN [pp EXCEPT !.failed = push(@, r)]
    ELSE IF r.key # None
    THEN IF r.downloadable.metadata # {}
         THEN [pp EXCEPT !.pc = "metadata_send", !.cur = <<r>>, !.success = TRUE]
         ELSE url_stage(r, TRUE, 1)
    ELSE [pp EXCEPT !.successful = push(@, r)]

\* A post-processor that returns its Report as soon as the channel is empty.
add_metadata_recv_eager ==
    /\ pp.pc = "recv"
    /\ IF chan.queue # <<>>
       THEN poll([Tasks EXCEPT !.chan.queue = Tail(@),
                               !.recvLog = Append(@, Head(chan.queue)),
                               !.pp = dispatch(Head(chan.queue))])
       ELSE poll([Tasks EXCEPT !.chan.receiver = FALSE, !.pp.pc = "ok"])

\* `while let Some(mut r) = receiver.recv().await`; recv yields None once
\* the queue is empty and the sender is dropped, and the task returns the
\* Report.
add_metadata_recv ==
    /\ pp.pc = "recv"
    /\ IF chan.queue # <<>>
       THEN poll([Tasks EXCEPT !.chan.queue = Tail(@),
                               !.recvLog = Append(@, Head(chan.queue)),
                               !.pp = dispatch(Head(chan.queue))])
       ELSE /\ ~chan.sender
            /\ poll([Tasks EXCEPT !.chan.receiver = FALSE, !.pp.pc = "ok"])

\* ------------------------------------------- src/src/annex.rs: AnnexIO::chat

MetadataInput(r) == [key |-> r.key, arg |-> r.downloadable.metadata]
\* The extra URLs taken from the last to the first.
RegisterURLInput_reversed(r, i) ==
    [key |-> r.key,
     arg |-> r.downloadable.extra_urls[Len(r.downloadable.extra_urls) + 1 - i]]

RegisterURLInput(r, i) == [key |-> r.key, arg |-> r.downloadable.extra_urls[i]]

\* A chat that goes on to read whether or not its write succeeded.
chat_send_unchecked(worker, input, here, there) ==
    /\ pp.pc = here
    /\ \E ok \in BOOLEAN :
        poll([Tasks EXCEPT
                 !.chatReq = IF ok THEN <<[worker |-> worker, input |-> input]>>
                             ELSE @,
                 !.chatLog = IF ok
                             THEN Append(@, [n |-> Len(recvLog), worker |-> worker,
                                             input |-> input, resp |-> "pending"])
                             ELSE @,
                 !.pp.pc = there])

\* chat, first half: `self.stdin.send(value).await ... ?`
chat_send(worker, input, here, there) ==
    /\ pp.pc = here
    /\ \E ok \in BOOLEAN :
        poll(IF ok
             THEN [Tasks EXCEPT
                      !.chatReq = <<[worker |-> worker, input |-> input]>>,
                      !.chatLog = Append(@, [n |-> Len(recvLog), worker |-> worker,
                                             input |-> input, resp |-> "pending"]),
                      !.pp.pc = there]
             ELSE [Tasks EXCEPT !.pp.pc = "err",
                      !.error = <<"Error writing to git-annex", worker>>])

SetResp(log, resp) == [log EXCEPT ![Len(log)].resp = resp]

\* chat, second half: `self.stdout.try_next().await ... ?` yields Err, or
\* None (the worker closed its stdout), and chat returns Err.
chat_recv_err(worker, here) ==
    /\ pp.pc = here
    /\ \E e \in {"Error reading from git-annex",
                  "git-annex terminated before providing output"} :
        poll([Tasks EXCEPT !.pp.pc = "err", !.error = <<e, worker>>])

\* A chat that returns without having read its response.
chat_recv_ok_early(worker, here, o, pp2) ==
    /\ pp.pc = here
    /\ poll([Tasks EXCEPT !.pp = pp2])

\* chat, second half, yielding the response o; pp2 is the post-processor
\* after the code that follows the chat.
chat_recv_ok(worker, here, o, pp2) ==
    /\ pp.pc = here
    /\ poll([Tasks EXCEPT !.chatReq = <<>>,
                          !.chatLog = SetResp(@, IF o.success THEN "ok" ELSE "failed"),
                          !.pp = pp2])

\* metadata_added set to Some(Ok(())) whatever the response.
metadata_added_ok(r, o) == [r EXCEPT !.metadata_added = Some(Ok)]

\* `match metadata.chat(input).await?.check()`
metadata_added(r, o) == [r EXCEPT !.metadata_added = Some(MetadataOutput_check(o))]

add_metadata_metadata_send ==
    /\ pp.pc = "metadata_send"
    /\ chat_send("metadata", MetadataInput(pp.cur[1]), "metadata_send", "metadata_recv")

add_metadata_metadata_recv ==
    /\ pp.pc = "metadata_recv"
    /\ \E o \in Responses :
        chat_recv_ok("metadata", "metadata_recv", o,
                     url_stage(metadata_added(pp.cur[1], o),
                               pp.success /\ MetadataOutput_check(o).ok, 1))

add_metadata_metadata_err == chat_recv_err("metadata", "metadata_recv")

\* `match registerurl.chat(input).await?.check()`
urls_added(r, u, o) ==
    [r EXCEPT !.urls_added = insert(@, u, RegisterURLOutput_check(o))]

add_metadata_registerurl_send ==
    /\ pp.pc = "registerurl_send"
    /\ chat_send("registerurl", RegisterURLInput(pp.cur[1], pp.i),
                 "registerurl_send", "registerurl_recv")

add_metadata_registerurl_recv ==
    /\ pp.pc = "registerurl_recv"
    /\ \E o \in Responses :
        chat_recv_ok("registerurl", "registerurl_recv", o,
                     url_stage(urls_added(pp.cur[1],
                                          pp.cur[1].downloadable.extra_urls[pp.i], o),
                               pp.success /\ RegisterURLOutput_check(o).ok,
                               pp.i + 1))

add_metadata_registerurl_err == chat_recv_err("registerurl", "registerurl_recv")

\* ------------------------------- src/src/annex.rs: in_context and teardown

\* AnnexTerminator::wait: how `self.p.wait()` may end, and, with a timeout,
\* the kill that follows when it elapses.  None of the outcomes is returned
\* to the caller.  Without a timeout the call returns once the child has
\* exited, and a batch worker exits only after its stdin is closed.
wait(p, timeout, how) ==
    /\ timeout # <<>> \/ ~procs[p].stdin_open
    /\ \E o \in {"exit0", "exitN", "wait_err"}
                \cup (IF timeout # <<>> THEN {"killed", "kill_err"} ELSE {}) :
        /\ procs' = [procs EXCEPT ![p].teardown = how, ![p].timeout = timeout]
        /\ childEnd' = o

\* A terminate that waits for the child without a limit.
terminate_unbounded(p, timeout) ==
    \/ \E o \in {"no_pid", "sigterm_err"} :
        /\ procs' = [procs EXCEPT ![p].teardown = "terminate",
                                   ![p].timeout = timeout]
        /\ childEnd' = o
    \/ /\ ~procs[p].stdin_open
       /\ \E o \in {"exit0", "exitN", "wait_err"} :
            /\ procs' = [procs EXCEPT ![p].teardown = "terminate",
                                       ![p].timeout = <<>>]
            /\ childEnd' = o

\* AnnexTerminator::terminate (unix): no pid, or SIGTERM not sent: only a
\* warning; otherwise wait(timeout).
terminate(p, timeout) ==
    \/ \E o \in {"no_pid", "sigterm_err"} :
        /\ procs' = [procs EXCEPT ![p].teardown = "terminate",
                                   ![p].timeout = timeout]
        /\ childEnd' = o
    \/ wait(p, timeout, "terminate")

\* Scopes that are left in the order they were entered.
TdNext_forward == [registerurl |-> "return", metadata |-> "td_registerurl",
                   addurl |-> "td_metadata"]

TdPc == [addurl |-> "td_addurl", metadata |-> "td_metadata",
         registerurl |-> "td_registerurl"]

\* Where download goes once the scope of p is left.
TdNext == [registerurl |-> "td_metadata", metadata |-> "td_addurl",
           addurl |-> "return"]

\* in_context without its Ok branch.
teardown_terminate(p, r) == terminate(p, <<ERR_TIMEOUT>>)

\* in_context without its Err branch.
teardown_wait(p, r) == wait(p, <<>>, "wait")

\* AnnexProcess::in_context after `func(io).await`:
\* `if r.is_ok() { wait(None) } else { terminate(Some(ERR_TIMEOUT)) }`
teardown(p, r) ==
    IF r = "Ok" THEN wait(p, <<>>, "wait")
    ELSE terminate(p, <<ERR_TIMEOUT>>)

in_context(p) ==
    /\ dlPc = TdPc[p]
    /\ teardown(p, dlResult)
    /\ tdLog' = Append(tdLog, p)
    /\ dlPc' = TdNext[p]
    /\ UNCHANGED <<unitVars, mainVars, dlResult, dlError>>

in_context_registerurl ==
    /\ in_context("registerurl")
    /\ UNCHANGED <<taskVars, logVars>>

in_context_metadata ==
    /\ in_context("metadata")
    /\ UNCHANGED <<taskVars, logVars>>

in_context_addurl ==
    /\ in_context("addurl")
    /\ UNCHANGED <<taskVars, logVars>>

\* A download that fails when the last subprocess did not exit with zero.
download_return_status ==
    /\ dlPc = "return"
    /\ dlPc' = "returned"
    /\ IF dlResult = "Ok" /\ childEnd = "exit0"
       THEN /\ mainPc' = IF commit_gate(Report, args) THEN "diff" ELSE "finish"
            /\ exitCode' = exitCode
       ELSE main_err
    /\ childEnd' = "none"
    /\ UNCHANGED <<unitVars, items, args, commits, failuresFile, dlResult, dlError, procs,
                   taskVars, logVars, tdLog>>

\* `match r { Ok((_, _, report)) => Ok(report), Err(e) => Err(e) }`, then in
\* main `.await?` and the condition of the commit block.
download_return ==
    /\ dlPc = "return"
    /\ dlPc' = "returned"
    /\ IF dlResult = "Ok"
       THEN /\ mainPc' = IF commit_gate(Report, args) THEN "diff" ELSE "finish"
            /\ exitCode' = exitCode
       ELSE main_err
    /\ childEnd' = "none"
    /\ UNCHANGED <<unitVars, items, args, commits, failuresFile, dlResult, dlError, procs,
                   taskVars, logVars, tdLog>>

\* ------------------------------------------- src/src/main.rs: after download

\* `git diff --cached --quiet`: Ok (nothing staged), Err(Exit) (something
\* staged), or another error.
main_diff ==
    /\ mainPc = "diff"
    /\ \E o \in {"clean", "staged", "error"} :
        IF o = "clean" THEN mainPc' = "finish" /\ exitCode' = exitCode
        ELSE IF o = "staged" THEN mainPc' = "commit" /\ exitCode' = exitCode
        ELSE main_err
    /\ UNCHANGED <<unitVars, items, args, commits, failuresFile, dlPc, dlResult, dlError, procs,
                   taskVars, logVars, tdLog, childEnd>>

\* `git commit -m <message>` followed by `?`
main_commit ==
    /\ mainPc = "commit"
    /\ commits' = Append(commits, commit_message(Report, args))
    /\ \E ok \in BOOLEAN :
        IF ok THEN mainPc' = "finish" /\ exitCode' = exitCode ELSE main_err
    /\ UNCHANGED <<unitVars, items, args, failuresFile, dlPc, dlResult, dlError, procs,
                   taskVars, logVars, tdLog, childEnd>>

\* main's final expression; write_failures may fail part-way, which is
\* only logged.
main_finish ==
    /\ mainPc = "finish"
    /\ mainPc' = "exit"
    /\ exitCode' = exit_code(Report)
    /\ IF Report.failed # <<>> /\ args.failures # None
       THEN \E created \in BOOLEAN, n \in 0..Len(Report.failed) :
                failuresFile' = write_failures(Report.failed, created, n)
       ELSE failuresFile' = failuresFile
    /\ UNCHANGED <<unitVars, items, args, commits, dlPc, dlResult, dlError, procs,
                   taskVars, logVars, tdLog, childEnd>>

\* ------------------------------------------------------------ specification

Next ==
    \/ main_start
    \/ main_ensure
    \/ spawn_addurl
    \/ spawn_metadata
    \/ spawn_registerurl
    \/ feed_addurl_start
    \/ feed_addurl_send
    \/ read_addurl_completion
    \/ read_addurl_progress
    \/ read_addurl_unrequested
    \/ read_addurl_eof
    \/ read_addurl_error
    \/ add_metadata_recv
    \/ add_metadata_metadata_send
    \/ add_metadata_metadata_recv
    \/ add_metadata_metadata_err
    \/ add_metadata_registerurl_send
    \/ add_metadata_registerurl_recv
    \/ add_metadata_registerurl_err
    \/ in_context_registerurl
    \/ in_context_metadata
    \/ in_context_addurl
    \/ download_return
    \/ main_diff
    \/ main_commit
    \/ main_finish

Spec == Init /\ [][Next]_vars

\* The same program for inputs of three items whose first and last have the
\* same path and whose second has another.
DuplicateInputs ==
    {t \in {<<x, y, z>> : x \in Catalogue, y \in Catalogue, z \in Catalogue} :
        t[1].path = t[3].path /\ t[2].path # t[1].path}

InitDuplicate == InitWith(DuplicateInputs, {DefaultArguments})

SpecDuplicate == InitDuplicate /\ [][Next]_vars

\* The same program under every combination of the command-line options,
\* for no input and for inputs of two items with different paths.
MainInputs ==
    {<<>>} \cup {<<x, y>> : x \in {d \in Catalogue : d.path = "a"},
                            y \in {d \in Catalogue : d.path = "b"}}

InitMain == InitWith(MainInputs, Arguments)

SpecMain == InitMain /\ [][Next]_vars

\* read_addurl on its own: the feed has written a request for every item and
\* returned, and the receiving half of the channel is either held by a
\* receiver that is not polled or has been dropped.
ReaderInputs ==
    {its \in Inputs : \A i, j \in 1..Len(its) : its[i].path = its[j].path => i = j}

InitReader ==
    /\ items \in ReaderInputs
    /\ args = DefaultArguments
    /\ mainPc = "download"
    /\ exitCode = -1
    /\ commits = <<>>
    /\ failuresFile = NoFile
    /\ dlPc = "tasks"
    /\ dlResult = "none"
    /\ dlError = <<>>
    /\ procs = [p \in Procs |->
                  [NoProc EXCEPT !.spawned = TRUE, !.stdin_open = p # "addurl"]]
    /\ childEnd = "none"
    /\ feed = [pc |-> "ok", idx |-> Len(items) + 1]
    /\ data = {items[i] : i \in 1..Len(items)}
    /\ reqs = [i \in 1..Len(items) |-> AddURLInput(items[i])]
    /\ reader = "run"
    /\ \E receiver \in BOOLEAN :
        /\ chan = [queue |-> <<>>, sender |-> TRUE, receiver |-> receiver]
        /\ pp = [pc |-> IF receiver THEN "recv" ELSE "dropped", cur |-> <<>>,
                 success |-> TRUE, i |-> 1, successful |-> <<>>, failed |-> <<>>]
    /\ chatReq = <<>>
    /\ dropLog = <<>>
    /\ sentLog = reqs
    /\ readLog = <<>>
    /\ recvLog = <<>>
    /\ chatLog = <<>>
    /\ tdLog = <<>>
    /\ InitUnits("none")

NextReader ==
    \/ read_addurl_completion
    \/ read_addurl_progress
    \/ read_addurl_unrequested
    \/ read_addurl_eof
    \/ read_addurl_error

SpecReader == InitReader /\ [][NextReader]_vars

\* The same program with workers that behave and a runtime that polls a task
\* that can go on.  A worker reads what is written to its stdin, so the
\* writes succeed.  Add-URL writes Progress records that name a requested
\* file and one Completion for each request, and closes its stdout once its
\* stdin is closed and every request is answered.  The metadata and
\* register-URL workers answer each request.  A worker whose stdin is closed
\* exits, which is what enables `wait(None)`.
NextBehaved ==
    \/ main_start
    \/ main_ensure
    \/ spawn_addurl
    \/ spawn_metadata
    \/ spawn_registerurl
    \/ feed_addurl_start
    \/ feed_addurl_send /\ feed'.pc # "err"
    \/ read_addurl_completion
    \/ read_addurl_progress /\ reader' # "err"
    \/ read_addurl_eof /\ ~procs["addurl"].stdin_open /\ reqs = <<>>
    \/ add_metadata_recv
    \/ add_metadata_metadata_send /\ pp'.pc # "err"
    \/ add_metadata_metadata_recv
    \/ add_metadata_registerurl_send /\ pp'.pc # "err"
    \/ add_metadata_registerurl_recv
    \/ in_context_registerurl
    \/ in_context_metadata
    \/ in_context_addurl
    \/ download_return
    \/ main_diff
    \/ main_commit
    \/ main_finish

SpecBehaved == Init /\ [][NextBehaved]_vars /\ WF_vars(NextBehaved)

\* ------------------------------------------- src/src/blc.rs: BinaryLinesCodec

MaxLines == 2
MaxLineLen == 2
MaxLength == 1

CR == "\r"
LF == "\n"

\* The bytes a line may hold: anything but the newline.
Payload == {"a", CR}

Min(a, b) == IF a < b THEN a ELSE b

saturating_add_none(a, b) == a

saturating_add(a, b) == IF a >= usize_MAX - b THEN usize_MAX ELSE a + b

BinaryLinesCodec_new ==
    [next_index |-> 0, max_length |-> usize_MAX, is_discarding |-> FALSE]

new_with_max_length(max_length) ==
    [BinaryLinesCodec_new EXCEPT !.max_length = max_length]

without_carriage_return_all(s) == SelectSeq(s, LAMBDA b : b # CR)

without_carriage_return(s) ==
    IF s # <<>> /\ s[Len(s)] = CR THEN SubSeq(s, 1, Len(s) - 1) ELSE s

\* Iterator::position: <<offset>> for Some(offset), the 0-based offset of the
\* first byte of s that is b, and <<>> for None.
position(s, b) ==
    IF \E i \in 1..Len(s) : s[i] = b
    THEN <<(CHOOSE i \in 1..Len(s) :
                s[i] = b /\ \A j \in 1..(i - 1) : s[j] # b) - 1>>
    ELSE <<>>

\* BytesMut::advance(n): what is left of b; BytesMut::split_to(n) returns the
\* first n bytes and leaves the same.
advance(b, n) == SubSeq(b, n + 1, Len(b))

split_to(b, n) == SubSeq(b, 1, n)

\* What decode returns: Ok(None), Ok(Some(line)), Err(MaxLineLengthExceeded),
\* or a panic.
OkNone == [is |-> "Ok(None)", line |-> <<>>]
OkSome(line) == [is |-> "Ok(Some)", line |-> line]
MaxLineLengthExceeded == [is |-> "Err(MaxLineLengthExceeded)", line |-> <<>>]
Panic == [is |-> "panic", line |-> <<>>]

RECURSIVE decode(_, _)

\* A decode that looks for the newline one byte further than the limit allows.
decode_wide(c, b) ==
    LET read_to == Min(saturating_add(c.max_length, 2), Len(b)) IN
    IF c.next_index > read_to
    THEN [codec |-> c, buf |-> b, ret |-> Panic]
    ELSE
    LET newline_offset == position(SubSeq(b, c.next_index + 1, read_to), LF) IN
    CASE c.is_discarding /\ newline_offset # <<>> ->
            decode([c EXCEPT !.is_discarding = FALSE, !.next_index = 0],
                   advance(b, newline_offset[1] + c.next_index + 1))
      [] c.is_discarding /\ newline_offset = <<>> ->
            LET b2 == advance(b, read_to)
                c2 == [c EXCEPT !.next_index = 0]
            IN  IF b2 = <<>>
                THEN [codec |-> c2, buf |-> b2, ret |-> OkNone]
                ELSE decode(c2, b2)
      [] ~c.is_discarding /\ newline_offset # <<>> ->
            LET newline_index == newline_offset[1] + c.next_index
                line == split_to(b, newline_index + 1)
            IN  [codec |-> [c EXCEPT !.next_index = 0],
                 buf |-> advance(b, newline_index + 1),
                 ret |-> OkSome(without_carriage_return(
                            SubSeq(line, 1, Len(line) - 1)))]
      [] ~c.is_discarding /\ newline_offset = <<>> /\ Len(b) > c.max_length ->
            [codec |-> [c EXCEPT !.is_discarding = TRUE], buf |-> b,
             ret |-> MaxLineLengthExceeded]
      [] OTHER ->
            [codec |-> [c EXCEPT !.next_index = read_to], buf |-> b,
             ret |-> OkNone]

\* Decoder::decode(&mut self, buf): the codec and buffer it leaves and what
\* it returns.  The slice buf[next_index..read_to] panics when next_index is
\* past read_to.
decode(c, b) ==
    LET read_to == Min(saturating_add(c.max_length, 1), Len(b)) IN
    IF c.next_index > read_to
    THEN [codec |-> c, buf |-> b, ret |-> Panic]
    ELSE
    LET newline_offset == position(SubSeq(b, c.next_index + 1, read_to), LF) IN
    CASE c.is_discarding /\ newline_offset # <<>> ->
            decode([c EXCEPT !.is_discarding = FALSE, !.next_index = 0],
                   advance(b, newline_offset[1] + c.next_index + 1))
      [] c.is_discarding /\ newline_offset = <<>> ->
            LET b2 == advance(b, read_to)
                c2 == [c EXCEPT !.next_index = 0]
            IN  IF b2 = <<>>
                THEN [codec |-> c2, buf |-> b2, ret |-> OkNone]
                ELSE decode(c2, b2)
      [] ~c.is_discarding /\ newline_offset # <<>> ->
            LET newline_index == newline_offset[1] + c.next_index
                line == split_to(b, newline_index + 1)
            IN  [codec |-> [c EXCEPT !.next_index = 0],
                 buf |-> advance(b, newline_index + 1),
                 ret |-> OkSome(without_carriage_return(
                            SubSeq(line, 1, Len(line) - 1)))]
      [] ~c.is_discarding /\ newline_offset = <<>> /\ Len(b) > c.max_length ->
            [codec |-> [c EXCEPT !.is_discarding = TRUE], buf |-> b,
             ret |-> MaxLineLengthExceeded]
      [] OTHER ->
            [codec |-> [c EXCEPT !.next_index = read_to], buf |-> b,
             ret |-> OkNone]

RECURSIVE scan(_, _, _)
\* The bytes that `.iter().position(..)` looks at in one call of decode while
\* the codec is not discarding, in the order it looks at them.  A byte is
\* named by the number of bytes from it to the end of the stream, itself
\* counted, where rest bytes of the stream are not yet in the buffer.
scan(c, b, rest) ==
    LET read_to == Min(saturating_add(c.max_length, 1), Len(b)) IN
    IF c.next_index > read_to THEN <<>>
    ELSE
    LET newline_offset == position(SubSeq(b, c.next_index + 1, read_to), LF)
        n == IF newline_offset = <<>> THEN read_to - c.next_index
             ELSE newline_offset[1] + 1
    IN
    CASE c.is_discarding /\ newline_offset # <<>> ->
            scan([c EXCEPT !.is_discarding = FALSE, !.next_index = 0],
                 advance(b, newline_offset[1] + c.next_index + 1), rest)
      [] c.is_discarding /\ newline_offset = <<>> ->
            IF advance(b, read_to) = <<>> THEN <<>>
            ELSE scan([c EXCEPT !.next_index = 0], advance(b, read_to), rest)
      [] OTHER ->
            [k \in 1..n |-> rest + Len(b) - (c.next_index + k - 1)]

encode_crlf(line, b) == b \o line \o <<CR, LF>>

\* Encoder::encode(&mut self, line, buf): the buffer it leaves.
encode(line, b) == b \o line \o <<LF>>

RECURSIVE encode_all(_, _)
encode_all(ls, b) ==
    IF ls = <<>> THEN b ELSE encode_all(Tail(ls), encode(Head(ls), b))

\* The byte strings of at most n Payload bytes.
BytesUpTo(n) == UNION {[1..k -> Payload] : k \in 0..n}

\* The sink is given some lines; the stream reads what it wrote, through a
\* codec without or with a length limit.
InitCodec ==
    /\ InitProgram({<<>>}, {DefaultArguments})
    /\ InitUnits("blc")
    /\ lines \in SeqsUpTo(BytesUpTo(MaxLineLen), MaxLines)
    /\ wire = encode_all(lines, <<>>)
    /\ buf = <<>>
    /\ codec \in {BinaryLinesCodec_new} \cup
                 {new_with_max_length(m) : m \in 1..MaxLength}
    /\ frames = <<>>
    /\ scanLog = <<>>

\* The transport reads a chunk of n bytes into the buffer.
blc_read ==
    /\ \E n \in 1..Len(wire) :
        /\ buf' = buf \o SubSeq(wire, 1, n)
        /\ wire' = advance(wire, n)
    /\ UNCHANGED <<exceptBlc, lines, codec, frames, scanLog>>

\* The framed stream calls decode on the buffer.
blc_decode ==
    /\ buf # <<>> \/ wire # <<>>
    /\ LET r == decode(codec, buf) IN
        /\ codec' = r.codec
        /\ buf' = r.buf
        /\ frames' = IF r.ret = OkNone THEN frames ELSE Append(frames, r.ret)
        /\ scanLog' = scanLog \o scan(codec, buf, Len(wire))
    /\ UNCHANGED <<exceptBlc, lines, wire>>

NextCodec == blc_read \/ blc_decode

SpecCodec == InitCodec /\ [][NextCodec]_vars

MaxStreamLen == 4

\* A decode_eof that leaves the rest of the buffer where it is.
decode_eof_strict(c, b) == decode(c, b)

\* A decode_eof that takes the rest of the buffer and keeps the scan
\* position.
decode_eof_keep(c, b) ==
    LET d == decode(c, b) IN
    IF d.ret # OkNone THEN d
    ELSE IF d.buf = <<>> \/ d.buf = <<CR>> THEN d
    ELSE [codec |-> d.codec,
          buf |-> advance(d.buf, Len(d.buf)),
          ret |-> OkSome(without_carriage_return(split_to(d.buf, Len(d.buf))))]

\* Decoder::decode_eof(&mut self, buf): decode's frame or error if it has
\* one, and otherwise the rest of the buffer unless it is empty or a lone
\* carriage return.
decode_eof(c, b) ==
    LET d == decode(c, b) IN
    IF d.ret # OkNone THEN d
    ELSE IF d.buf = <<>> \/ d.buf = <<CR>> THEN d
    ELSE [codec |-> [d.codec EXCEPT !.next_index = 0],
          buf |-> advance(d.buf, Len(d.buf)),
          ret |-> OkSome(without_carriage_return(split_to(d.buf, Len(d.buf))))]

\* The byte strings of at most n bytes, newlines included.
StreamsUpTo(n) == UNION {[1..k -> Payload \cup {LF}] : k \in 0..n}

\* A worker writes some bytes and closes its stdout; `lines` holds what it
\* wrote, as one string.
InitEof ==
    /\ InitProgram({<<>>}, {DefaultArguments})
    /\ InitUnits("blc")
    /\ wire \in StreamsUpTo(MaxStreamLen)
    /\ lines = <<wire>>
    /\ buf = <<>>
    /\ codec \in {BinaryLinesCodec_new} \cup
                 {new_with_max_length(m) : m \in 1..MaxLength}
    /\ frames = <<>>
    /\ scanLog = <<>>

\* The stream has ended: decode_eof returned Ok(None).
Ended == frames # <<>> /\ frames[Len(frames)] = OkNone

\* The framed stream, having read everything, calls decode_eof on the
\* buffer until it returns Ok(None), which is recorded as the end.
blc_decode_eof ==
    /\ wire = <<>>
    /\ ~Ended
    /\ LET r == decode_eof(codec, buf) IN
        /\ codec' = r.codec
        /\ buf' = r.buf
        /\ frames' = Append(frames, r.ret)
        /\ scanLog' = scanLog \o scan(codec, buf, Len(wire))
    /\ UNCHANGED <<exceptBlc, lines, wire>>

NextEof == blc_read \/ blc_decode \/ blc_decode_eof

SpecEof == InitEof /\ [][NextEof]_vars

\* ------------------------------------------------ src/src/filepath.rs: FilePath

MaxPathLen == 7

\* The characters of a path string: two letters, the dot and the separator.
PathChars == {"f", "b", ".", "/"}

PathStrings == UNION {[1..k -> PathChars] : k \in 0..MaxPathLen}

RECURSIVE split(_, _)
\* str::split: the pieces of s between occurrences of sep.
split(s, sep) ==
    IF \E i \in 1..Len(s) : s[i] = sep
    THEN LET i == CHOOSE k \in 1..Len(s) :
                    s[k] = sep /\ \A j \in 1..(k - 1) : s[j] # sep
         IN  <<SubSeq(s, 1, i - 1)>> \o split(SubSeq(s, i + 1, Len(s)), sep)
    ELSE <<s>>

RootDir == [is |-> "RootDir", part |-> <<>>]
CurDir == [is |-> "CurDir", part |-> <<>>]
ParentDir == [is |-> "ParentDir", part |-> <<>>]
Normal(part) == [is |-> "Normal", part |-> part]

RECURSIVE components_from(_, _)
components_from(pieces, i) ==
    IF i > Len(pieces) THEN <<>>
    ELSE (CASE pieces[i] = <<>> -> <<>>
            [] pieces[i] = <<".">> -> IF i = 1 THEN <<CurDir>> ELSE <<>>
            [] pieces[i] = <<".", ".">> -> <<ParentDir>>
            [] OTHER -> <<Normal(pieces[i])>>)
         \o components_from(pieces, i + 1)

\* std::path::Path::components on Unix: a leading separator is RootDir,
\* repeated and trailing separators are skipped, `.` is skipped except at the
\* start of a relative path, where it is CurDir, `..` is ParentDir.
components(path) ==
    (IF path # <<>> /\ path[1] = "/" THEN <<RootDir>> ELSE <<>>)
        \o components_from(split(path, "/"), 1)

FilePathOk(output) == [is |-> "Ok", path |-> output]
FilePathErr(e) == [is |-> e, path |-> <<>>]

RECURSIVE try_from_loop(_, _)
\* The loop of FilePath::try_from(&Path) over the components not yet seen.
try_from_loop(cs, output) ==
    IF cs = <<>>
    THEN IF output = <<>> THEN FilePathErr("Empty") ELSE FilePathOk(output)
    ELSE CASE Head(cs).is = "Normal" ->
                try_from_loop(Tail(cs),
                    (IF output # <<>> THEN output \o <<"/">> ELSE output)
                        \o Head(cs).part)
           [] Head(cs).is = "CurDir" -> try_from_loop(Tail(cs), output)
           [] Head(cs).is = "ParentDir" -> FilePathErr("NotNormalized")
           [] OTHER -> FilePathErr("NotRelative")

try_from_unchecked(path) ==
    IF path = <<>> THEN FilePathErr("Empty") ELSE FilePathOk(path)

\* FilePath::try_from(&str), through TryFrom<&Path>.
try_from(path) == try_from_loop(components(path), <<>>)

\* FilePathVisitor::visit_str: the FilePath, or serde's invalid_value error.
visit_str(input) ==
    LET r == try_from(input) IN
    IF r.is = "Ok" THEN r ELSE FilePathErr("invalid_value")

InitFilePath ==
    /\ InitProgram({<<>>}, {DefaultArguments})
    /\ InitUnits("filepath")
    /\ filepath \in {[NoFilePath EXCEPT !.input = p] : p \in PathStrings}

\* FilePath::try_from(input)
filepath_try_from ==
    /\ filepath.try_from = <<>>
    /\ filepath' = [filepath EXCEPT !.try_from = <<try_from(filepath.input)>>]
    /\ UNCHANGED exceptFilePath

\* The path string is deserialized.
filepath_deserialize ==
    /\ filepath.deserialize = <<>>
    /\ filepath' = [filepath EXCEPT
                        !.deserialize = <<visit_str(filepath.input)>>]
    /\ UNCHANGED exceptFilePath

\* The string of an accepted FilePath is given to try_from again.
filepath_again ==
    /\ filepath.try_from # <<>>
    /\ filepath.try_from[1].is = "Ok"
    /\ filepath.again = <<>>
    /\ filepath' = [filepath EXCEPT
                        !.again = <<try_from(filepath.try_from[1].path)>>]
    /\ UNCHANGED exceptFilePath

NextFilePath == filepath_try_from \/ filepath_deserialize \/ filepath_again

SpecFilePath == InitFilePath /\ [][NextFilePath]_vars

\* ------------------------------------------ src/src/lib.rs: ensure_annex_repo

\* A directory and the one below it; `repo` is one of them.
Dirs == {"top", "sub"}

\* What a directory is: missing, a plain directory, one holding a .git
\* directory, or one holding a .git directory with an annex directory in it.
DirStates == {"missing", "plain", "git", "annex"}

FileSystems == {f \in [Dirs -> DirStates] : f["top"] = "missing" => f["sub"] = "missing"}

\* The directory and its ancestors, nearest first.
Upwards(d) == IF d = "sub" THEN <<"sub", "top">> ELSE <<"top">>

\* tokio::fs::create_dir_all: the directory and its missing ancestors exist.
create_dir_all(fs, d) ==
    [x \in Dirs |->
        IF fs[x] = "missing" /\ \E i \in 1..Len(Upwards(d)) : Upwards(d)[i] = x
        THEN "plain" ELSE fs[x]]

show_toplevel_here(fs, d) ==
    IF fs[d] \in {"git", "annex"} THEN <<d>> ELSE <<>>

\* `git rev-parse --show-toplevel` run in d: <<root>>, the root of the working
\* tree that d is in, or <<>> when the command exits non-zero for there being
\* none.
show_toplevel(fs, d) ==
    LET up == SelectSeq(Upwards(d), LAMBDA x : fs[x] \in {"git", "annex"})
    IN  IF up = <<>> THEN <<>> ELSE <<up[1]>>

\* `git init` run in d.
git_init(fs, d) == [fs EXCEPT ![d] = IF @ = "annex" THEN "annex" ELSE "git"]

\* `git-annex init` run in the root d of a working tree.
git_annex_init(fs, d) == [fs EXCEPT ![d] = "annex"]

\* repo.join(git_dir).join("annex").exists()
annex_exists(fs, d) == fs[d] = "annex"

InitEnsure ==
    /\ InitProgram({<<>>}, {DefaultArguments})
    /\ InitUnits("ensure")
    /\ ensure \in {[pc |-> "create_dir_all", repo |-> d, fs |-> f, fs0 |-> f,
                    toplevel |-> "", git_dir |-> "", ran |-> <<>>] :
                        d \in Dirs, f \in FileSystems}

EnsureStep(e) ==
    /\ ensure' = e
    /\ UNCHANGED exceptEnsure

\* A command or file operation fails and `?` returns the error.
ensure_err == [ensure EXCEPT !.pc = "err"]

ensure_create_dir_all ==
    /\ ensure.pc = "create_dir_all"
    /\ \E ok \in BOOLEAN :
        EnsureStep(IF ok
                   THEN [ensure EXCEPT !.pc = "show_toplevel",
                            !.fs = create_dir_all(ensure.fs, ensure.repo)]
                   ELSE ensure_err)

\* git rev-parse --show-toplevel: Ok(s), Err(Exit) or another error.
ensure_show_toplevel ==
    /\ ensure.pc = "show_toplevel"
    /\ \E ok \in BOOLEAN :
        LET toplevel == show_toplevel(ensure.fs, ensure.repo)
            ran == Append(ensure.ran, "git rev-parse --show-toplevel")
        IN  EnsureStep(
                IF ~ok THEN [ensure_err EXCEPT !.ran = ran]
                ELSE IF toplevel # <<>>
                THEN [ensure EXCEPT !.pc = "git_dir", !.ran = ran,
                                    !.toplevel = toplevel[1]]
                ELSE [ensure EXCEPT !.pc = "git_init", !.ran = ran])

ensure_git_init ==
    /\ ensure.pc = "git_init"
    /\ \E ok \in BOOLEAN :
        EnsureStep(IF ok
                   THEN [ensure EXCEPT !.pc = "git_dir",
                            !.ran = Append(@, "git init"),
                            !.fs = git_init(ensure.fs, ensure.repo),
                            !.toplevel = ensure.repo]
                   ELSE [ensure_err EXCEPT !.ran = Append(@, "git init")])

\* git rev-parse --git-dir in the repository root, then the test for the
\* annex directory under it.
ensure_git_dir ==
    /\ ensure.pc = "git_dir"
    /\ \E ok \in BOOLEAN :
        LET ran == Append(ensure.ran, "git rev-parse --git-dir") IN
        EnsureStep(
            IF ~ok THEN [ensure_err EXCEPT !.ran = ran]
            ELSE [ensure EXCEPT !.ran = ran, !.git_dir = ".git",
                    !.pc = IF annex_exists(ensure.fs, ensure.toplevel)
                           THEN "Ok" ELSE "git_annex_init"])

ensure_git_annex_init ==
    /\ ensure.pc = "git_annex_init"
    /\ \E ok \in BOOLEAN :
        EnsureStep(IF ok
                   THEN [ensure EXCEPT !.pc = "Ok",
                            !.ran = Append(@, "git-annex init"),
                            !.fs = git_annex_init(ensure.fs, ensure.toplevel)]
                   ELSE [ensure_err EXCEPT !.ran = Append(@, "git-annex init")])

NextEnsure ==
    \/ ensure_create_dir_all
    \/ ensure_show_toplevel
    \/ ensure_git_init
    \/ ensure_git_dir
    \/ ensure_git_annex_init

SpecEnsure == InitEnsure /\ [][NextEnsure]_vars

\* ------------------------------------- src/src/lib.rs: InProgress on its own

MaxCalls == 4

InitInProgress ==
    /\ InitProgram({<<>>}, {DefaultArguments})
    /\ InitUnits("in_progress")
    /\ in_progress = NoInProgress

\* A call is recorded with its argument, what it returned and the map
\* before and after it.
Call(op, path, ret, after) ==
    [in_progress EXCEPT
        !.data = after,
        !.calls = Append(@, [op |-> op, path |-> path, ret |-> ret,
                             before |-> in_progress.data, after |-> after])]

\* in_progress.add(&dl)
in_progress_add ==
    /\ Len(in_progress.calls) < MaxCalls
    /\ \E dl \in Catalogue :
        in_progress' = Call("add", dl.path,
                            [ok |-> add_ok(in_progress.data, dl), dl |-> <<dl>>],
                            add(in_progress.data, dl))
    /\ UNCHANGED exceptInProgress

\* in_progress.pop(&file)
in_progress_pop ==
    /\ Len(in_progress.calls) < MaxCalls
    /\ \E f \in Paths :
        in_progress' =
            IF pop_ok(in_progress.data, f)
            THEN Call("pop", f,
                      [ok |-> TRUE, dl |-> <<pop_value(in_progress.data, f)>>],
                      pop(in_progress.data, f))
            ELSE Call("pop", f, [ok |-> FALSE, dl |-> <<>>], in_progress.data)
    /\ UNCHANGED exceptInProgress

NextInProgress == in_progress_add \/ in_progress_pop

SpecInProgress == InitInProgress /\ [][NextInProgress]_vars

\* ------------------------------- src/src/annex/addurl.rs: AddURLOutput

\* A member of a JSON object: absent, null, of a type the field does not
\* accept, or a value of the field's type.
Absent == <<"absent">>
Null == <<"null">>
Bad == <<"bad">>

\* The `action` objects, or a flat object's action members: `file` may be
\* a path that FilePath accepts or one that it rejects.
JsonActions ==
    [command : {Absent, <<"addurl">>},
     file : {Absent, Null, <<"f">>, <<"/", "f">>},
     input : {Absent, <<"in">>}]

\* The JSON objects add-URL's output is drawn from; `action` is <<>> when
\* the member is absent and <<a>> for the object a.
JsonObjects ==
    [byte_progress : {Absent, Bad, <<"8192">>},
     total_size : {Absent, Null, <<"3405224">>},
     percent_progress : {Absent, <<"17.79%">>},
     action : {<<>>} \cup {<<a>> : a \in JsonActions},
     key : {Absent, <<"k1">>},
     command : {Absent, <<"addurl">>},
     file : {Null, <<"f">>},
     input : {Absent, <<"in">>},
     success : {Absent, <<"true">>, <<"false">>},
     error_messages : {Absent, <<"e1">>},
     note : {Absent, <<"n">>}]

\* A field of type T without a default: the member must be a value of T.
required(v) == v \notin {Absent, Null, Bad}

\* A field of type Option<T>, with or without `#[serde(default)]`: None for
\* an absent or null member.
optional(v) == IF v \in {Absent, Null} THEN <<>> ELSE <<v>>

\* Deserialize for Option<FilePath>: an absent or null member is None, a
\* string goes through FilePathVisitor::visit_str.
file_ok(v) == v \in {Absent, Null} \/ visit_str(v).is = "Ok"

\* Deserialize for Action (outputs.rs): <<action>> for Ok, <<>> for Err.
Action_deserialize(a) ==
    IF required(a.command) /\ required(a.input) /\ file_ok(a.file)
    THEN <<[command |-> a.command, file |-> optional(a.file), input |-> a.input]>>
    ELSE <<>>

\* The Progress variant: `byte-progress` and `action` are required.
Progress_deserialize(o) ==
    IF /\ required(o.byte_progress)
       /\ o.total_size # Bad
       /\ o.percent_progress # Bad
       /\ o.action # <<>>
       /\ Action_deserialize(o.action[1]) # <<>>
    THEN <<[variant |-> "Progress",
            byte_progress |-> o.byte_progress,
            total_size |-> optional(o.total_size),
            percent_progress |-> optional(o.percent_progress),
            action |-> Action_deserialize(o.action[1])[1]]>>
    ELSE <<>>

\* The Completion variant: `action` and `result` are flattened, `key` and
\* `note` have defaults.
Completion_deserialize(o) ==
    LET action == Action_deserialize([command |-> o.command, file |-> o.file,
                                      input |-> o.input])
    IN  IF /\ action # <<>>
           /\ required(o.success)
           /\ required(o.error_messages)
           /\ o.key # Bad
           /\ o.note # Bad
        THEN <<[variant |-> "Completion",
                key |-> optional(o.key),
                action |-> action[1],
                result |-> [success |-> o.success,
                            error_messages |-> o.error_messages],
                note |-> optional(o.note)]>>
        ELSE <<>>

\* An untagged enum that tries its second variant first.
AddURLOutput_deserialize_completion_first(o) ==
    IF Completion_deserialize(o) # <<>> THEN Completion_deserialize(o)
    ELSE Progress_deserialize(o)

\* `#[serde(untagged)] enum AddURLOutput`: the variants are tried in the
\* order of their declaration, and the first that deserializes is the
\* result; <<>> is the error that none matched.
AddURLOutput_deserialize(o) ==
    IF Progress_deserialize(o) # <<>> THEN Progress_deserialize(o)
    ELSE Completion_deserialize(o)

InitAddURLOutput ==
    /\ InitProgram({<<>>}, {DefaultArguments})
    /\ InitUnits("addurl_output")
    /\ addurl_output \in
            {[NoAddURLOutput EXCEPT !.input = <<o>>] : o \in JsonObjects}

\* serde_json::from_slice::<AddURLOutput> on the line.
addurl_output_deserialize ==
    /\ ~addurl_output.parsed
    /\ addurl_output' =
            [addurl_output EXCEPT
                !.parsed = TRUE,
                !.output = AddURLOutput_deserialize(addurl_output.input[1])]
    /\ UNCHANGED exceptAddURLOutput

NextAddURLOutput == addurl_output_deserialize

SpecAddURLOutput == InitAddURLOutput /\ [][NextAddURLOutput]_vars

\* ------------------------------------------------- vocabulary of the claims

\* A DownloadResult as the reader made it, without what the post-processor
\* attaches.
Strip(r) == [downloadable |-> r.downloadable, download |-> r.download, key |-> r.key]

StripAll(s) == [i \in 1..Len(s) |-> Strip(s[i])]

IsPrefix(s, t) == Len(s) <= Len(t) /\ SubSeq(t, 1, Len(s)) = s

RECURSIVE IsSubseq(_, _)
IsSubseq(s, t) ==
    IF s = <<>> THEN TRUE
    ELSE IF t = <<>> THEN FALSE
    ELSE IF Head(s) = Head(t) THEN IsSubseq(Tail(s), Tail(t))
    ELSE IsSubseq(s, Tail(t))

Last(s) == s[Len(s)]

ReportEntries == Report.successful \o Report.failed

DistinctPaths == {items[i].path : i \in 1..Len(items)}

AllSpawned == \A p \in Procs : procs[p].spawned

\* The chats made for the n-th DownloadResult received, as (worker, input).
ChatsOf(n) ==
    LET Test(e) == e.n = n
    IN  SelectSeq(chatLog, Test)

Asked(n) ==
    [k \in 1..Len(ChatsOf(n)) |->
        [worker |-> ChatsOf(n)[k].worker, input |-> ChatsOf(n)[k].input]]

\* The post-processor is done with the n-th DownloadResult it received.
Finished(n) == n < Len(recvLog) \/ pp.pc \in {"recv", "ok"}

\* ------------------------------------------------------------------- claims

\* C1: whenever download returns Ok(report), every DownloadResult the
\* post-processor received is in the report, once, and the report holds at
\* most as many entries as the input has distinct paths.
C1_ReportPartition ==
    dlResult = "Ok" =>
        /\ Len(ReportEntries) = Len(recvLog)
        /\ \A n \in 1..Len(recvLog) :
            \E k \in 1..Len(ReportEntries) : Strip(ReportEntries[k]) = Strip(recvLog[n])
        /\ Len(ReportEntries) <= Cardinality(DistinctPaths)

\* C2: of the Downloadables of one path at most one is ever sent to add-URL,
\* and the report holds at most one entry for the path, whatever the timing
\* of the feed and the reader.
C2_DuplicateDropped ==
    \A p \in Paths :
        /\ Cardinality({k \in 1..Len(sentLog) : sentLog[k].path = p}) <= 1
        /\ Cardinality({k \in 1..Len(ReportEntries) :
                            ReportEntries[k].downloadable.path = p}) <= 1

\* C3: the post-processor receives the DownloadResults in the order the
\* reader read their Completions, and each of report.successful and
\* report.failed lists its items in that order.
C3_PipelineOrder ==
    /\ readLog = recvLog \o chan.queue
    /\ IsPrefix(recvLog, readLog)
    /\ IsSubseq(StripAll(pp.successful), StripAll(recvLog))
    /\ IsSubseq(StripAll(pp.failed), StripAll(recvLog))

\* Two items completed in the reverse of their input order, reported in the
\* order of their Completions.
C3_Witness ==
    /\ dlResult = "Ok"
    /\ Len(items) = 2
    /\ items[1].path = "a"
    /\ Len(pp.successful) = 2
    /\ pp.successful[1].downloadable.path = "b"
    /\ pp.successful[2].downloadable.path = "a"

\* C4: when a task returns an error the join ends with Err at that step, no
\* task takes a step afterwards, main gets the error and no Report, and by
\* the time download returns terminate has been invoked on register-URL,
\* metadata and add-URL, in that order, and wait-without-timeout on none.
C4_ErrorCancels ==
    [][ /\ (dlPc = "tasks" /\ "err" \in {feed'.pc, reader', pp'.pc})
            => (dlResult' = "Err" /\ dlPc' = "td_registerurl")
        /\ dlResult = "Err"
            => /\ UNCHANGED <<taskVars, logVars, dlResult>>
               /\ mainPc' \in {"download", "err"}
               /\ commits' = <<>>
        /\ (dlResult = "Err" /\ AllSpawned /\ dlPc' = "returned")
            => /\ \A p \in Procs : procs[p].teardown = "terminate"
               /\ tdLog = <<"registerurl", "metadata", "addurl">>
               /\ mainPc' = "err"
               /\ exitCode' = 1
               /\ ReportEntries' = <<>>
      ]_vars

\* download has returned the error of the post-process task.
C4_Witness ==
    /\ dlPc = "returned"
    /\ dlResult = "Err"
    /\ pp.pc = "err"
    /\ AllSpawned
    /\ \A p \in Procs : procs[p].teardown = "terminate"

\* C5: a failed DownloadResult carries the worker's error messages and no
\* key; the step that reads its Completion pops the item, sends the result
\* and leaves the reader and the run going; the post-processor puts it in
\* `failed` as it is, and no chat is made for it.
C5_FailedDownload ==
    [][ /\ \A n \in 1..Len(readLog') :
            ~readLog'[n].download.ok
                => /\ readLog'[n].key = None
                   /\ readLog'[n].download.msgs \in ErrMsgs
        /\ \A n \in 1..Len(recvLog') :
            ~recvLog'[n].download.ok
                => /\ \A k \in 1..Len(chatLog') : chatLog'[k].n # n
                   /\ \E k \in 1..Len(pp'.failed) : pp'.failed[k] = recvLog'[n]
                   /\ \A k \in 1..Len(pp'.successful) :
                        Strip(pp'.successful[k]) # Strip(recvLog'[n])
        /\ (Len(readLog') > Len(readLog) /\ ~Last(readLog').download.ok)
            => /\ reader' = "run"
               /\ dlResult' = "none"
               /\ dlPc' = "tasks"
               /\ Last(readLog').downloadable \in data
               /\ data' = data \ {Last(readLog').downloadable}
               /\ chan'.queue = Append(chan.queue, Last(readLog'))
      ]_vars

\* A failed download was read first, a later record was processed and put
\* in `successful`, and download returned Ok.
C5_Witness ==
    /\ dlResult = "Ok"
    /\ Len(readLog) = 2
    /\ ~readLog[1].download.ok
    /\ pp.failed = <<readLog[1]>>
    /\ Len(pp.successful) = 1

\* The chats C6 expects for a DownloadResult with a key.
C6_Expected(r) ==
    (IF r.downloadable.metadata # {}
     THEN << [worker |-> "metadata",
              input |-> [key |-> r.key, arg |-> r.downloadable.metadata]] >>
     ELSE <<>>)
    \o [i \in 1..Len(r.downloadable.extra_urls) |->
            [worker |-> "registerurl",
             input |-> [key |-> r.key, arg |-> r.downloadable.extra_urls[i]]]]

\* C6: for a successful download with a key the chats made are, in order,
\* one metadata chat if the metadata is non-empty, then one register-URL
\* chat per entry of extra_urls in declaration order; once they are made the
\* item is in `successful` if all of them reported success and in `failed`
\* otherwise, and every finished item is in one list.
C6_ChatsPerItem ==
    /\ Len(pp.successful) + Len(pp.failed)
        = Cardinality({n \in 1..Len(recvLog) : Finished(n)})
    /\ \A n \in 1..Len(recvLog) :
        LET r == recvLog[n]
            allOk == \A k \in 1..Len(ChatsOf(n)) : ChatsOf(n)[k].resp = "ok"
            list == IF allOk THEN pp.successful ELSE pp.failed
        IN  (r.download.ok /\ r.key # None)
                => /\ IsPrefix(Asked(n), C6_Expected(r))
                   /\ Finished(n)
                        => /\ Asked(n) = C6_Expected(r)
                           /\ \A k \in 1..Len(ChatsOf(n)) :
                                ChatsOf(n)[k].resp \in {"ok", "failed"}
                           /\ \E k \in 1..Len(list) : Strip(list[k]) = Strip(r)

\* An item with metadata and two extra URLs went through its three chats
\* and is in `successful`; another one failed a chat and is in `failed`.
C6_Witness ==
    /\ dlResult = "Ok"
    /\ \E k \in 1..Len(pp.successful) :
        /\ pp.successful[k].downloadable.metadata # {}
        /\ Len(pp.successful[k].downloadable.extra_urls) = 2
        /\ pp.successful[k].key # None
    /\ \E k \in 1..Len(pp.failed) : pp.failed[k].download.ok

\* The last chat has just been answered with success=false.
ChatFailed ==
    /\ chatLog # <<>>
    /\ Len(chatLog') = Len(chatLog)
    /\ Last(chatLog).resp = "pending"
    /\ Last(chatLog').resp = "failed"

\* C7: the step that reads a metadata or register-URL response with
\* success=false fails neither the task nor the run; it attaches the failure
\* to the item (metadata_added, or the urls_added entry of the URL), and
\* either goes on to the item's next extra URL or, when none is left, puts
\* the item in `failed` and returns to receiving; an item one of whose chats
\* failed is never put in `successful`.
C7_ChatFailureNonFatal ==
    [][ /\ ChatFailed
            => LET c == Last(chatLog)
                   urls == pp.cur[1].downloadable.extra_urls
                   next == IF c.worker = "metadata" THEN 1 ELSE pp.i + 1
                   r2 == IF next <= Len(urls) THEN pp'.cur[1] ELSE Last(pp'.failed)
               IN  /\ dlResult' = "none"
                   /\ dlPc' = "tasks"
                   /\ Strip(r2) = Strip(pp.cur[1])
                   /\ c.worker = "metadata"
                        => /\ r2.metadata_added.some
                           /\ ~r2.metadata_added.val.ok
                           /\ r2.metadata_added.val.msgs \in ErrMsgs
                   /\ c.worker = "registerurl"
                        => \E e \in r2.urls_added :
                            e[1] = c.input.arg /\ ~e[2].ok /\ e[2].msgs \in ErrMsgs
                   /\ IF next <= Len(urls)
                      THEN /\ pp'.pc = "registerurl_send"
                           /\ pp'.i = next
                           /\ ~pp'.success
                      ELSE /\ pp'.pc = "recv"
                           /\ pp'.failed = Append(pp.failed, r2)
                           /\ pp'.successful = pp.successful
        /\ (pp.cur # <<>> /\ ~pp.success /\ dlResult' # "Err")
            => pp'.successful = pp.successful
      ]_vars

\* The first item's first extra URL was refused and its second registered;
\* the item is in `failed`, a later item was processed, download returned Ok.
C7_Witness ==
    /\ dlResult = "Ok"
    /\ Len(recvLog) = 2
    /\ Len(pp.failed) >= 1
    /\ Strip(pp.failed[1]) = Strip(recvLog[1])
    /\ pp.failed[1].urls_added = {<<"x1", Err(<<"e1">>)>>, <<"x2", Ok>>}
    /\ Len(pp.successful) = 1

\* C8: a successful download without a key is in `successful` as the reader
\* made it and in `failed` never, and no chat is made for it.
C8_NoKey ==
    \A n \in 1..Len(recvLog) :
        (recvLog[n].download.ok /\ recvLog[n].key = None)
            => /\ \A k \in 1..Len(chatLog) : chatLog[k].n # n
               /\ \E k \in 1..Len(pp.successful) : pp.successful[k] = recvLog[n]
               /\ \A k \in 1..Len(pp.failed) : Strip(pp.failed[k]) # Strip(recvLog[n])

\* An item with metadata and extra URLs got no key: it is in `successful`
\* and no worker was asked anything.
C8_Witness ==
    /\ dlResult = "Ok"
    /\ chatLog = <<>>
    /\ \E k \in 1..Len(pp.successful) :
        /\ pp.successful[k].key = None
        /\ pp.successful[k].downloadable.metadata # {}
        /\ pp.successful[k].downloadable.extra_urls # <<>>

\* C9: a commit is issued only when report.successful is non-empty, --no-save
\* is not set and not (--no-save-on-fail with report.failed non-empty); its
\* message is the configured message with the number of successful items in
\* the place of every `{downloaded}`.
C9_CommitGate ==
    commits # <<>> =>
        /\ Report.successful # <<>>
        /\ args.save
        /\ ~(args.no_save_on_fail /\ Report.failed # <<>>)
        /\ Len(commits) = 1
        /\ \E parts \in MessageParts :
            /\ args.message = join(parts, Placeholder)
            /\ commits[1] = join(parts, to_string(Len(Report.successful)))

\* A commit was issued under --no-save-on-fail for a message that holds the
\* placeholder twice.
C9_Witness ==
    /\ commits # <<>>
    /\ args.no_save_on_fail
    /\ \E parts \in MessageParts : Len(parts) = 3 /\ args.message = join(parts, Placeholder)

\* C10 as stated: once download has returned a Report the process exits with
\* code 0 if report.failed is empty and with code 1 otherwise.
C10_ExitCode ==
    (dlResult = "Ok" /\ mainPc \in {"exit", "err"})
        => exitCode = (IF Report.failed = <<>> THEN 0 ELSE 1)

\* C10 amended: when main reaches its final expression the exit code is 0
\* if report.failed is empty and 1 otherwise, whether or not a commit was
\* issued or the failures file written; when `git diff` cannot be run or
\* `git commit` fails, main returns the error and the exit code is 1.
C10_ExitCodeAmended ==
    /\ (dlResult = "Ok" /\ mainPc = "exit")
        => exitCode = (IF Report.failed = <<>> THEN 0 ELSE 1)
    /\ (dlResult = "Ok" /\ mainPc = "err")
        => exitCode = 1 /\ Report.successful # <<>> /\ args.save

\* A commit was issued, the failures file was asked for and could not be
\* written, and the exit code is 1 because an item failed.
C10_Witness ==
    /\ mainPc = "exit"
    /\ dlResult = "Ok"
    /\ commits # <<>>
    /\ Report.failed # <<>>
    /\ args.failures # None
    /\ failuresFile.result = "Err"
    /\ exitCode = 1

\* The elements of a sequence.
Range(s) == {s[i] : i \in 1..Len(s)}

Drained == wire = <<>> /\ buf = <<>>

\* No line handed to the encoder is longer than the decoder's limit.
WithinLimit == \A i \in 1..Len(lines) : Len(lines[i]) <= codec.max_length

Decoded(f(_)) == [i \in 1..Len(lines) |-> OkSome(f(lines[i]))]

\* C12 as stated: the decoder returns exactly the encoded byte strings, in
\* order, whatever they hold besides a newline and however the stream is cut
\* into chunks.
C12_RoundTrip ==
    WithinLimit =>
        /\ IsPrefix(frames, Decoded(LAMBDA x : x))
        /\ Drained => frames = Decoded(LAMBDA x : x)

\* C12 amended: the decoder returns the encoded byte strings in order, each
\* without its last byte if that is a carriage return, so exactly those that
\* do not end in one; this for strings within the decoder's limit and however
\* the stream is cut into chunks.
C12_RoundTripAmended ==
    WithinLimit =>
        /\ IsPrefix(frames, Decoded(LAMBDA x : without_carriage_return(x)))
        /\ Drained => frames = Decoded(LAMBDA x : without_carriage_return(x))
        /\ \A i \in 1..Len(frames) :
            (lines[i] = <<>> \/ Last(lines[i]) # CR)
                => frames[i] = OkSome(lines[i])

\* An empty string and one ending in a carriage return have been decoded.
C12_Witness ==
    /\ Drained
    /\ codec.max_length = usize_MAX
    /\ lines = << <<>>, <<"a", CR>> >>
    /\ frames = <<OkSome(<<>>), OkSome(<<"a">>)>>

\* What decode returns for each line: an error for one longer than the limit,
\* the line without its carriage return otherwise.
Expected ==
    [i \in 1..Len(lines) |->
        IF Len(lines[i]) > codec.max_length
        THEN MaxLineLengthExceeded
        ELSE OkSome(without_carriage_return(lines[i]))]

\* C13: a line longer than max_length makes decode return
\* MaxLineLengthExceeded once; nothing else is returned for it, its bytes and
\* its newline are discarded, and the next thing returned is the outcome of
\* the line after it, whatever the chunks; decode never panics.
C13_MaxLengthRecovery ==
    /\ IsPrefix(frames, Expected)
    /\ Drained => frames = Expected /\ ~codec.is_discarding
    /\ (~codec.is_discarding /\ Len(buf) > codec.max_length
            /\ position(SubSeq(buf, 1, codec.max_length + 1), LF) = <<>>)
        => decode(codec, buf).ret = MaxLineLengthExceeded

\* A line over the limit was reported and the line after it was returned.
C13_Witness ==
    /\ Drained
    /\ Len(lines) = 2
    /\ Len(lines[1]) > codec.max_length
    /\ lines[2] # <<>>
    /\ frames = <<MaxLineLengthExceeded, OkSome(lines[2])>>

Names(p) == SelectSeq(split(p, "/"), LAMBDA x : x # <<>> /\ x # <<".">>)

RECURSIVE Joined(_)
Joined(names) ==
    IF Len(names) <= 1 THEN (IF names = <<>> THEN <<>> ELSE names[1])
    ELSE names[1] \o <<"/">> \o Joined(Tail(names))

\* A path string try_from must reject: absolute, with a `..` component, or
\* without any name (the empty path and "." among them).
Rejected(p) ==
    \/ p # <<>> /\ p[1] = "/"
    \/ \E i \in 1..Len(split(p, "/")) : split(p, "/")[i] = <<".", ".">>
    \/ Names(p) = <<>>

\* C15: try_from accepts exactly the relative paths without `..` component
\* that hold a name, and returns their names joined by single separators
\* (`.` components, repeated and trailing separators dropped); deserializing
\* succeeds exactly when try_from does, with the same path; an accepted path
\* given to try_from again comes back unchanged.
C15_Normalization ==
    /\ try_from(<<"f", "/", ".", "/", "b">>) = FilePathOk(<<"f", "/", "b">>)
    /\ try_from(<<"f", "/", "/", "b">>) = FilePathOk(<<"f", "/", "b">>)
    /\ try_from(<<"f", "/">>) = FilePathOk(<<"f">>)
    /\ \A p \in {<<>>, <<".">>, <<".", ".">>, <<"/", "f">>,
                 <<"f", "/", ".", ".", "/", "b">>} : try_from(p).is # "Ok"
    /\ filepath.try_from # <<>> =>
        LET r == filepath.try_from[1] IN
        /\ r.is # "Ok" <=> Rejected(filepath.input)
        /\ r.is = "Ok" => r.path = Joined(Names(filepath.input))
        /\ filepath.deserialize # <<>> =>
            /\ filepath.deserialize[1].is = "Ok" <=> r.is = "Ok"
            /\ r.is = "Ok" => filepath.deserialize[1] = r
        /\ filepath.again # <<>> => filepath.again[1] = r

\* A path with a `.` component, a repeated and a trailing separator was
\* normalized, deserialized and normalized again.
C15_Witness ==
    /\ filepath.input = <<".", "/", "f", "/", "/", "b", "/">>
    /\ filepath.try_from = <<FilePathOk(<<"f", "/", "b">>)>>
    /\ filepath.deserialize # <<>>
    /\ filepath.again # <<>>

\* The nearest of a directory and its ancestors that holds a .git directory.
Containing(fs, d) ==
    CHOOSE x \in Dirs \cup {"none"} :
        IF \E i \in 1..Len(Upwards(d)) : fs[Upwards(d)[i]] \in {"git", "annex"}
        THEN \E i \in 1..Len(Upwards(d)) :
                /\ x = Upwards(d)[i]
                /\ fs[x] \in {"git", "annex"}
                /\ \A j \in 1..(i - 1) : fs[Upwards(d)[j]] \notin {"git", "annex"}
        ELSE x = "none"

\* C16: when ensure_annex_repo returns Ok, the working tree that holds repo
\* has a .git directory with an annex directory; if repo was inside a working
\* tree at the start, `git init` was not run and repo holds a .git directory
\* only if it did before; if that tree had its annex directory at the start,
\* `git-annex init` was not run.
C16_EnsureAnnexRepo ==
    ensure.pc = "Ok" =>
        LET before == Containing(ensure.fs0, ensure.repo)
            after == Containing(ensure.fs, ensure.repo)
        IN  /\ after # "none"
            /\ ensure.fs[after] = "annex"
            /\ before # "none" =>
                /\ "git init" \notin Range(ensure.ran)
                /\ after = before
                /\ (ensure.fs0[ensure.repo] \in {"missing", "plain"}
                        => ensure.fs[ensure.repo] = "plain")
            /\ (before # "none" /\ ensure.fs0[before] = "annex") =>
                /\ "git-annex init" \notin Range(ensure.ran)
                /\ ensure.fs = create_dir_all(ensure.fs0, ensure.repo)
            /\ before = "none" =>
                /\ after = ensure.repo
                /\ "git init" \in Range(ensure.ran)

\* repo was a missing directory below a Git working tree without annex: it
\* was created, and git-annex was initialized in the tree above it.
C16_Witness ==
    /\ ensure.pc = "Ok"
    /\ ensure.repo = "sub"
    /\ ensure.fs0 = [x \in Dirs |-> IF x = "top" THEN "git" ELSE "missing"]
    /\ ensure.fs = [x \in Dirs |-> IF x = "top" THEN "annex" ELSE "plain"]
    /\ ensure.ran = <<"git rev-parse --show-toplevel",
                      "git rev-parse --git-dir", "git-annex init">>

\* The calls for path p that took effect: adds that returned true and pops
\* that returned Ok.
Effective(p) ==
    SelectSeq(in_progress.calls, LAMBDA c : c.path = p /\ c.ret.ok)

\* C17: add returns true exactly when the path is absent, and then inserts
\* the entry; it returns false when the path is present and leaves the map
\* as it is; pop returns and removes the stored entry, and fails on an absent
\* path, leaving the map; so for each path the adds that return true and the
\* pops that return an entry alternate, starting with an add.
C17_InFlightMap ==
    /\ \A i \in 1..Len(in_progress.calls) :
        LET c == in_progress.calls[i]
            present == \E d \in c.before : d.path = c.path
        IN  IF c.op = "add"
            THEN /\ c.ret.ok <=> ~present
                 /\ c.after = IF present THEN c.before
                              ELSE c.before \cup {c.ret.dl[1]}
            ELSE /\ c.ret.ok <=> present
                 /\ c.ret.ok =>
                        /\ c.ret.dl[1] \in c.before
                        /\ c.ret.dl[1].path = c.path
                        /\ c.after = c.before \ {c.ret.dl[1]}
                 /\ ~c.ret.ok => c.after = c.before
    /\ \A d1, d2 \in in_progress.data : d1.path = d2.path => d1 = d2
    /\ \A p \in Paths :
        \A i \in 1..Len(Effective(p)) :
            Effective(p)[i].op = IF i % 2 = 1 THEN "add" ELSE "pop"

\* A path was added, added again in vain, popped, and added afresh.
C17_Witness ==
    /\ Len(in_progress.calls) = 4
    /\ \A i \in 1..4 : in_progress.calls[i].path = "a"
    /\ [i \in 1..4 |-> in_progress.calls[i].op] = <<"add", "add", "pop", "add">>
    /\ [i \in 1..4 |-> in_progress.calls[i].ret.ok] = <<TRUE, FALSE, TRUE, TRUE>>
    /\ in_progress.calls[1].ret.dl # in_progress.calls[2].ret.dl
    /\ in_progress.calls[3].ret.dl = in_progress.calls[1].ret.dl

PopMiss == "No record found for download of"

\* C18: for a Completion, successful or not, whose file has no entry in the
\* map, the reader's pop fails: the reader returns that error, the map is
\* left alone and nothing is sent on the channel; the step that reads it ends
\* the join with Err, and download and main return this very error.
C18_PopMiss ==
    [][ /\ \A f \in Paths, ok \in BOOLEAN, key \in Keys \cup {None} :
            (dlPc = "tasks" /\ reader = "run" /\ ~pop_ok(data, f)) =>
                LET t == read_record(Tasks,
                            Completion(f, ok, key,
                                       IF ok THEN <<>> ELSE <<"e1">>))
                IN  /\ t.reader = "err"
                    /\ t.error = <<PopMiss, f>>
                    /\ t.chan = chan
                    /\ t.readLog = readLog
                    /\ t.data = data
        /\ read_addurl_unrequested =>
                /\ reader' = "err"
                /\ dlResult' = "Err"
                /\ dlError' # <<>>
                /\ dlPc' = "td_registerurl"
        /\ (dlError = <<>> /\ dlError' # <<>> /\ dlError'[1] = PopMiss) =>
                /\ reader = "run"
                /\ ~pop_ok(data, dlError'[2])
                /\ reader' = "err"
                /\ dlResult' = "Err"
        /\ (dlError # <<>> /\ dlError[1] = PopMiss) =>
                /\ dlResult = "Err"
                /\ UNCHANGED <<dlResult, dlError, taskVars, logVars>>
                /\ dlPc' = "returned" => mainPc' = "err"
      ]_vars

\* download has returned the error of a pop without an entry.
C18_Witness ==
    /\ dlPc = "returned"
    /\ mainPc = "err"
    /\ reader = "err"
    /\ dlResult = "Err"
    /\ dlError = <<PopMiss, "a">>

\* C19: each in_context makes one call on its subprocess, after its closure
\* has returned: wait(None) when the closure returned Ok,
\* terminate(Some(3 s)) when it returned Err; it is the only call ever made
\* on that subprocess, and the closure's result is passed on as it is.
C19_InContext ==
    [][ /\ tdLog' # tdLog =>
            LET p == Last(tdLog') IN
            /\ tdLog' = Append(tdLog, p)
            /\ p \notin Range(tdLog)
            /\ procs[p].spawned
            /\ procs[p].teardown = "none"
            /\ dlResult \in {"Ok", "Err"}
            /\ procs'[p].teardown = IF dlResult = "Ok" THEN "wait" ELSE "terminate"
            /\ procs'[p].timeout = IF dlResult = "Ok" THEN <<>> ELSE <<3>>
            /\ \A q \in Procs \ {p} : procs'[q] = procs[q]
            /\ UNCHANGED <<dlResult, dlError>>
        /\ \A p \in Procs :
            procs'[p].teardown # procs[p].teardown => tdLog' = Append(tdLog, p)
        /\ dlPc' = "returned" =>
            /\ \A p \in Procs : procs[p].spawned <=> procs[p].teardown # "none"
            /\ UNCHANGED <<dlResult, dlError>>
      ]_vars

\* download has returned Ok and every subprocess was waited for.
C19_Witness ==
    /\ dlPc = "returned"
    /\ dlResult = "Ok"
    /\ ReportEntries # <<>>
    /\ \A p \in Procs : procs[p].teardown = "wait" /\ procs[p].timeout = <<>>

\* The tasks are not running: they have returned or been dropped, or were
\* never started.
TasksStopped ==
    /\ dlPc # "tasks"
    /\ \/ {feed.pc, reader, pp.pc} \subseteq {"ok", "err", "dropped"}
       \/ ~AllSpawned /\ feed.pc = "start" /\ reader = "run" /\ pp.pc = "recv"

\* C20: add-URL is spawned first, then metadata, then register-URL; the
\* teardowns are made one at a time in the order register-URL, metadata,
\* add-URL, on success and on failure, each only once the tasks have stopped,
\* and by download's return every spawned subprocess has had its own.
C20_TeardownOrder ==
    [][ /\ procs["registerurl"].spawned => procs["metadata"].spawned
        /\ procs["metadata"].spawned => procs["addurl"].spawned
        /\ \A p \in Procs :
            (~procs[p].spawned /\ procs'[p].spawned) =>
                /\ tdLog = <<>>
                /\ \A q \in Procs \ {p} : procs'[q] = procs[q]
                /\ p = "metadata" => ~procs["registerurl"].spawned
                /\ p = "addurl" => ~procs["metadata"].spawned
        /\ IsSubseq(tdLog', <<"registerurl", "metadata", "addurl">>)
        /\ tdLog' # tdLog =>
            /\ Len(tdLog') = Len(tdLog) + 1
            /\ TasksStopped
            /\ UNCHANGED <<taskVars, logVars>>
        /\ tdLog # <<>> => TasksStopped /\ UNCHANGED <<taskVars, logVars>>
        /\ dlPc' = "returned" =>
            tdLog = SelectSeq(<<"registerurl", "metadata", "addurl">>,
                              LAMBDA p : procs[p].spawned)
      ]_vars

\* The feed task failed and the three subprocesses were terminated in order.
C20_Witness ==
    /\ dlPc = "returned"
    /\ dlResult = "Err"
    /\ feed.pc = "err"
    /\ tdLog = <<"registerurl", "metadata", "addurl">>
    /\ \A p \in Procs : procs[p].teardown = "terminate"

Workers == {"metadata", "registerurl"}
SendPc == [metadata |-> "metadata_send", registerurl |-> "registerurl_send"]
RecvPc == [metadata |-> "metadata_recv", registerurl |-> "registerurl_recv"]

\* C21: a chat writes exactly one request and then reads one response from
\* the same worker; it fails with the write's error without reading when the
\* write fails, and with the read's error when the read fails or the worker's
\* stdout ends before a response.
C21_Chat ==
    [][ /\ \A w \in Workers :
            /\ (pp.pc = RecvPc[w]) <=> (chatReq # <<>> /\ chatReq[1].worker = w)
            /\ pp.pc = SendPc[w] =>
                \/ pp' = pp /\ chatReq' = chatReq /\ chatLog' = chatLog
                \/ pp'.pc = "dropped"
                \/ /\ pp'.pc = RecvPc[w]
                   /\ Len(chatReq') = 1
                   /\ chatReq'[1].worker = w
                   /\ chatLog' = Append(chatLog,
                                    [n |-> Len(recvLog), worker |-> w,
                                     input |-> chatReq'[1].input,
                                     resp |-> "pending"])
                   /\ dlResult' = "none"
                \/ /\ pp'.pc = "err"
                   /\ dlError' = <<"Error writing to git-annex", w>>
                   /\ dlResult' = "Err"
            /\ pp.pc = RecvPc[w] =>
                \/ pp' = pp /\ chatReq' = chatReq /\ chatLog' = chatLog
                \/ pp'.pc = "dropped"
                \/ /\ pp'.pc \in {"recv", "registerurl_send"}
                   /\ chatReq' = <<>>
                   /\ Last(chatLog).resp = "pending"
                   /\ Last(chatLog).worker = w
                   /\ Last(chatLog).input = chatReq[1].input
                   /\ \E resp \in {"ok", "failed"} :
                        chatLog' = [chatLog EXCEPT ![Len(chatLog)].resp = resp]
                \/ /\ pp'.pc = "err"
                   /\ dlError' \in
                        {<<"Error reading from git-annex", w>>,
                         <<"git-annex terminated before providing output", w>>}
                   /\ dlResult' = "Err"
        /\ (dlError = <<>> /\ dlError' # <<>>
                /\ dlError'[1] = "Error writing to git-annex") =>
            /\ pp.pc = SendPc[dlError'[2]]
            /\ chatReq = <<>>
        /\ (dlError = <<>> /\ dlError' # <<>>
                /\ dlError'[1] \in {"Error reading from git-annex",
                                    "git-annex terminated before providing output"}
                /\ dlError'[2] # "addurl") =>
            /\ pp.pc = RecvPc[dlError'[2]]
            /\ Len(chatReq) = 1
      ]_vars

\* download has returned the error of a chat with the register-URL worker
\* that ended because the worker closed its stdout.
C21_Witness ==
    /\ dlPc = "returned"
    /\ pp.pc = "err"
    /\ dlError = <<"git-annex terminated before providing output", "registerurl">>

\* The chats whose request is written and whose response is not yet read.
Outstanding(log) == {i \in 1..Len(log) : log[i].resp = "pending"}

\* C22: at most one request is outstanding across the metadata and
\* register-URL workers; the chats of one received item are all answered
\* before the next item is received and before any further request is
\* written; a response goes to the request written last.
C22_Sequential ==
    [][ /\ Cardinality(Outstanding(chatLog)) <= 1
        /\ Outstanding(chatLog) \subseteq {Len(chatLog)}
        /\ (chatReq # <<>>) <=> (Outstanding(chatLog) # {})
        /\ \A i, j \in 1..Len(chatLog) :
            i <= j => chatLog[i].n <= chatLog[j].n
        /\ \A i \in 1..Len(chatLog) :
            /\ chatLog[i].n \in 1..Len(recvLog)
            /\ chatLog[i].n < Len(recvLog) => chatLog[i].resp # "pending"
        /\ Len(recvLog') > Len(recvLog) =>
            /\ Outstanding(chatLog) = {}
            /\ chatReq = <<>>
            /\ chatLog' = chatLog
        /\ Len(chatLog') > Len(chatLog) =>
            /\ Outstanding(chatLog) = {}
            /\ chatLog' = Append(chatLog, Last(chatLog'))
            /\ Last(chatLog').n = Len(recvLog)
        /\ (Len(chatLog') = Len(chatLog) /\ chatLog' # chatLog) =>
            /\ Outstanding(chatLog) = {Len(chatLog)}
            /\ Outstanding(chatLog') = {}
            /\ \A i \in 1..(Len(chatLog) - 1) : chatLog'[i] = chatLog[i]
            /\ [Last(chatLog') EXCEPT !.resp = "pending"] = Last(chatLog)
      ]_vars

\* The chats of the first received item are answered, on both workers, and
\* a request for the second is outstanding.
C22_Witness ==
    /\ Len(chatLog) >= 3
    /\ {chatLog[i].worker : i \in {j \in 1..Len(chatLog) : chatLog[j].n = 1}}
            = Workers
    /\ Last(chatLog).n = 2
    /\ Outstanding(chatLog) = {Len(chatLog)}

ReceiverHeld == (dlPc = "tasks" /\ reader = "run") => chan.receiver

NoFileError == <<"git-annex addurl outputted a line without a file">>

\* C24: a Progress record whose action has no file is accepted by the
\* reader: the reader keeps running, no error is raised, and the map and the
\* channel are as they were.
C24_ProgressNoFile ==
    (dlPc = "tasks" /\ reader = "run") =>
        LET t == read_record(Tasks, Progress(None))
        IN  /\ t.reader = "run"
            /\ t.error = dlError
            /\ t.data = data
            /\ t.chan = chan

\* C25: a Completion record without a file makes the reader return an
\* error without popping an entry or sending a DownloadResult; the join ends
\* with Err, and download and main return that error.
C25_CompletionNoFile ==
    [][ /\ \A ok \in BOOLEAN, key \in Keys \cup {None} :
            (dlPc = "tasks" /\ reader = "run") =>
                LET t == read_record(Tasks,
                            Completion(None, ok, key,
                                       IF ok THEN <<>> ELSE <<"e1">>))
                IN  /\ t.reader = "err"
                    /\ t.error = NoFileError
                    /\ t.data = data
                    /\ t.chan = chan
                    /\ t.readLog = readLog
        /\ (dlError = <<>> /\ dlError' = NoFileError) =>
                /\ dlPc = "tasks"
                /\ reader = "run"
                /\ reader' = "err"
                /\ dlResult' = "Err"
                /\ dlPc' = "td_registerurl"
        /\ dlError = NoFileError =>
                /\ dlResult = "Err"
                /\ UNCHANGED <<dlResult, dlError, taskVars, logVars>>
                /\ dlPc' = "returned" => mainPc' = "err"
      ]_vars

\* download and main have returned the error of a record without a file.
C25_Witness ==
    /\ dlPc = "returned"
    /\ mainPc = "err"
    /\ exitCode = 1
    /\ reader = "err"
    /\ dlResult = "Err"
    /\ dlError = NoFileError

\* The requests for the first n items, those discarded left out.
ExpectedSent(n) ==
    LET kept == SelectSeq([i \in 1..n |-> i], LAMBDA i : i \notin Range(dropLog))
    IN  [k \in 1..Len(kept) |-> AddURLInput(items[kept[k]])]

\* C26: the requests written to add-URL are those of the items that add
\* accepted, in input order, each item being in the map before its request is
\* written; an item is discarded exactly when add refused it; once the feed
\* task has returned or failed, add-URL's stdin is closed and no request is
\* written any more.
C26_Feed ==
    [][ /\ feed.pc = "send" =>
            /\ feed.idx \in 1..Len(items)
            /\ feed.idx \notin Range(dropLog)
            /\ items[feed.idx] \in data
            /\ sentLog = ExpectedSent(feed.idx - 1)
            /\ procs["addurl"].stdin_open
        /\ feed.pc = "ok" =>
            /\ feed.idx = Len(items) + 1
            /\ sentLog = ExpectedSent(Len(items))
        /\ \A i \in Range(dropLog') \ Range(dropLog) :
            /\ feed.pc \in {"start", "send"}
            /\ i < feed'.idx
            /\ has(data, items[i].path)
        /\ (feed'.pc = "send" /\ feed' # feed) =>
            /\ ~has(data, items[feed'.idx].path)
            /\ data' = data \cup {items[feed'.idx]}
        /\ Len(sentLog') > Len(sentLog) =>
            /\ feed.pc = "send"
            /\ sentLog' = Append(sentLog, AddURLInput(items[feed.idx]))
            /\ reqs' = Append(reqs, AddURLInput(items[feed.idx]))
        /\ feed.pc \in {"ok", "err", "dropped"} =>
            /\ ~procs["addurl"].stdin_open
            /\ ~procs'["addurl"].stdin_open
            /\ sentLog' \in {sentLog, <<>>}
            /\ Len(reqs') <= Len(reqs)
            /\ feed'.pc \in {feed.pc, "dropped"}
      ]_vars

\* The feed task has returned after writing a request and discarding an
\* item, and add-URL's stdin is closed while the other tasks still run.
C26_Witness ==
    /\ dlPc = "tasks"
    /\ feed.pc = "ok"
    /\ dropLog # <<>>
    /\ sentLog # <<>>
    /\ ~procs["addurl"].stdin_open

\* The frames of a stream s that ends: its terminated lines, and what
\* follows the last newline unless that is empty or a lone carriage return.
ExpectedEof(s) ==
    LET ps == split(s, LF)
        rest == ps[Len(ps)]
        terminated == [i \in 1..(Len(ps) - 1) |->
                            OkSome(without_carriage_return(ps[i]))]
    IN  IF rest = <<>> \/ rest = <<CR>> THEN terminated
        ELSE Append(terminated, OkSome(without_carriage_return(rest)))

\* No piece of s is longer than the codec's limit.
PiecesWithinLimit(s) ==
    \A i \in 1..Len(split(s, LF)) : Len(split(s, LF)[i]) <= codec.max_length

\* C27: at the end of the stream decode_eof returns the complete lines
\* still in the buffer first, in order, then what remains after the last
\* newline as one frame without its trailing carriage return, unless that is
\* empty or a lone carriage return, in which case it returns nothing.
C27_DecodeEof ==
    /\ LET d == decode(codec, buf)
           e == decode_eof(codec, buf)
       IN  /\ d.ret # OkNone => e = d
           /\ (d.ret = OkNone /\ d.buf \in {<<>>, <<CR>>}) => e = d
           /\ (d.ret = OkNone /\ d.buf \notin {<<>>, <<CR>>}) =>
                /\ e.ret = OkSome(without_carriage_return(d.buf))
                /\ e.buf = <<>>
                /\ e.codec.next_index = 0
    /\ \A i \in 1..Len(frames) : frames[i] # Panic
    /\ (Ended /\ PiecesWithinLimit(lines[1])) =>
            /\ SubSeq(frames, 1, Len(frames) - 1) = ExpectedEof(lines[1])
            /\ buf \in {<<>>, <<CR>>}

\* The stream held a terminated line and an unterminated one ending in a
\* carriage return, and has ended with a frame for each.
C27_Witness ==
    /\ lines = << <<"a", LF, "a", CR>> >>
    /\ codec.max_length = usize_MAX
    /\ frames = <<OkSome(<<"a">>), OkSome(<<"a">>), OkNone>>
    /\ buf = <<>>

\* How a teardown may end: the child exits with zero or not, waiting for it
\* fails, it is killed after the grace period or the kill fails, or the
\* SIGTERM is not sent.
ChildEnds ==
    {"exit0", "exitN", "wait_err", "killed", "kill_err", "no_pid", "sigterm_err"}

\* C28: however a subprocess ends, the result of the joined tasks is what
\* download returns: a teardown changes neither the result, nor its error,
\* nor the Report, and main goes on after download according to that result
\* alone.
C28_ExitStatusIgnored ==
    [][ /\ tdLog' # tdLog =>
            /\ childEnd' \in ChildEnds
            /\ dlResult \in {"Ok", "Err"}
            /\ UNCHANGED <<dlResult, dlError, pp, mainPc, exitCode>>
        /\ dlResult # "none" => UNCHANGED <<dlResult, dlError>>
        /\ (dlResult = "none" /\ dlResult' # "none") =>
            /\ tdLog = <<>>
            /\ childEnd = "none"
        /\ (dlPc = "return" /\ dlPc' = "returned") =>
            /\ dlResult = "Ok" =>
                /\ mainPc' = IF commit_gate(Report, args) THEN "diff" ELSE "finish"
                /\ exitCode' = exitCode
            /\ dlResult = "Err" => mainPc' = "err" /\ exitCode' = 1
      ]_vars

\* The tasks ended with Ok and the last subprocess exited with a status
\* other than zero: download is about to return Ok.
C28_Witness ==
    /\ dlPc = "return"
    /\ dlResult = "Ok"
    /\ childEnd = "exitN"
    /\ tdLog = <<"registerurl", "metadata", "addurl">>
    /\ Report.successful # <<>>

\* The ends of a teardown after which the child has exited or been killed:
\* its exit status was collected, the kill succeeded, or it had no pid left,
\* which Child::id() reports once the child has been reaped.
Gone == {"exit0", "exitN", "killed", "no_pid"}

\* The ends in which the SIGTERM was sent, and those in which the grace
\* period elapsed and the kill was attempted.
Signalled == {"exit0", "exitN", "wait_err", "killed", "kill_err"}
GraceElapsed == {"killed", "kill_err"}

\* The step is terminate called on subprocess p.
Terminates(p) ==
    procs[p].teardown = "none" /\ procs'[p].teardown = "terminate"

ProgressShape(o) ==
    /\ o.byte_progress \notin {Absent, Null, Bad}
    /\ o.action # <<>>
    /\ o.action[1].command # Absent
    /\ o.action[1].input # Absent
    /\ o.action[1].file # <<"/", "f">>

\* The object has the shape of a completion record: flat, with the action's
\* members, success and error-messages at top level.
CompletionShape(o) ==
    /\ o.command # Absent
    /\ o.input # Absent
    /\ o.success # Absent
    /\ o.error_messages # Absent

\* Some(v) for a member with the value v, None for an absent or null one.
Opt(v) == IF v = Absent \/ v = Null THEN <<>> ELSE <<v>>

\* C30: an object with a top-level byte-progress and a nested action parses
\* as Progress, whatever else it holds, with total-size, percent-progress
\* and the action's file None when absent; any other object parses as
\* Completion when it is flat with success and error-messages at top level,
\* with key and note None when absent, and is an error otherwise.
C30_AddURLOutput ==
    addurl_output.parsed =>
        LET o == addurl_output.input[1]
            out == addurl_output.output
        IN  /\ ProgressShape(o) =>
                /\ out # <<>>
                /\ out[1].variant = "Progress"
                /\ out[1].byte_progress = o.byte_progress
                /\ out[1].total_size = Opt(o.total_size)
                /\ out[1].percent_progress = Opt(o.percent_progress)
                /\ out[1].action.file = Opt(o.action[1].file)
                /\ out[1].action.command = o.action[1].command
                /\ out[1].action.input = o.action[1].input
            /\ (~ProgressShape(o) /\ CompletionShape(o)) =>
                /\ out # <<>>
                /\ out[1].variant = "Completion"
                /\ out[1].key = Opt(o.key)
                /\ out[1].note = Opt(o.note)
                /\ out[1].action.file = Opt(o.file)
                /\ out[1].result.success = o.success
                /\ out[1].result.error_messages = o.error_messages
            /\ (~ProgressShape(o) /\ ~CompletionShape(o)) => out = <<>>

\* An object that has both shapes, without total-size, percent-progress and
\* with a null file in its action, has been parsed as Progress.
C30_Witness ==
    /\ addurl_output.parsed
    /\ ProgressShape(addurl_output.input[1])
    /\ CompletionShape(addurl_output.input[1])
    /\ addurl_output.input[1].total_size = Absent
    /\ addurl_output.input[1].action[1].file = Null
    /\ addurl_output.output # <<>>
    /\ addurl_output.output[1].variant = "Progress"
    /\ addurl_output.output[1].total_size = <<>>
    /\ addurl_output.output[1].action.file = <<>>

\* On the success path every subprocess still to be awaited has had its
\* stdin closed.
StdinClosedBeforeWait ==
    dlResult = "Ok" =>
        \A p \in Procs :
            (procs[p].spawned /\ procs[p].teardown = "none") => ~procs[p].stdin_open

\* C31: with workers that behave, a download whose three tasks have been
\* started eventually returns Ok, and whenever the joined tasks have returned
\* Ok the stdin of every subprocess not yet awaited is closed, so that no
\* wait without a timeout waits for a worker that is still reading.
C31_ReturnsOk ==
    /\ [](dlPc \in {"td_registerurl", "td_metadata", "td_addurl"}
            => StdinClosedBeforeWait)
    /\ (dlPc = "tasks") ~> (dlPc = "returned" /\ dlResult = "Ok")

\* download has returned Ok after two items went through the pipeline, one
\* of them through both chats, and all three subprocesses were awaited with
\* wait and no timeout.
C31_Witness ==
    /\ dlPc = "returned"
    /\ dlResult = "Ok"
    /\ Len(recvLog) = 2
    /\ \E k \in 1..Len(chatLog) : chatLog[k].worker = "metadata"
    /\ \E k \in 1..Len(chatLog) : chatLog[k].worker = "registerurl"
    /\ \A p \in Procs : procs[p].teardown = "wait" /\ procs[p].timeout = <<>>
    /\ tdLog = <<"registerurl", "metadata", "addurl">>

\* C32: the reader never sends on a channel whose receiver is gone.  While
\* the reader runs the receiver is held; every step in which the reader sends
\* a result finds and leaves the receiver held; the post-processor returns Ok
\* only once the reader has returned and dropped the sender; a step in which
\* the post-processor fails leaves the reader dropped or returned, never
\* running; and no step ends in the panic of the `unwrap`.
C32_SendNeverPanics ==
    [][ /\ (dlPc = "tasks" /\ reader = "run") => chan.receiver
        /\ Len(readLog') = Len(readLog) + 1 => chan.receiver /\ chan'.receiver
        /\ (pp.pc # "ok" /\ pp'.pc = "ok") => reader = "ok" /\ ~chan.sender
        /\ pp'.pc = "err" => reader' \in {"dropped", "ok"}
        /\ reader' # "panic"
        /\ dlPc' # "panic"
        /\ exitCode' # 101
      ]_vars

\* The reader has sent two results and returned, and the post-processor has
\* received both and returned Ok after that.
C32_Witness ==
    /\ reader = "ok"
    /\ pp.pc = "ok"
    /\ Len(readLog) = 2
    /\ recvLog = readLog
    /\ ~chan.sender
    /\ ~chan.receiver

\* The requests written to add-URL whose Completion the reader has not read
\* are for different paths, and each has the entry of its item in the map.
InFlight ==
    /\ \A j, k \in 1..Len(reqs) : reqs[j].path = reqs[k].path => j = k
    /\ \A k \in 1..Len(reqs) :
        /\ pop_ok(data, reqs[k].path)
        /\ AddURLInput(pop_value(data, reqs[k].path)) = reqs[k]

\* C33: under every interleaving of the feed and the reader, every request
\* written to add-URL and not yet completed has its entry in the map, and
\* the reader's pop misses only for a path for which no request is
\* outstanding: the Completion of an outstanding request is never a miss.
C33_PopNeverMisses ==
    [][ /\ InFlight
        /\ (dlError' # dlError /\ Len(dlError') = 2
                /\ dlError'[1] = "No record found for download of")
            => (reader = "run" /\ \A k \in 1..Len(reqs) : reqs[k].path # dlError'[2])
      ]_vars

\* The feed has written three requests, two of them for the same path: the
\* reader popped the entry of the first before the feed added the third,
\* whose request is outstanding.
C33_Witness ==
    /\ dlPc = "tasks"
    /\ Len(sentLog) = 3
    /\ sentLog[1].path = sentLog[3].path
    /\ Len(readLog) >= 1
    /\ readLog[1].downloadable.path = sentLog[1].path
    /\ \E k \in 1..Len(reqs) : reqs[k] = sentLog[3]
    /\ Len(reqs) = 2

\* C34: every DownloadResult in report.successful satisfies success() and
\* none in report.failed does, whatever the input, items whose extra_urls
\* repeat a URL included.
C34_PartitionAgrees ==
    /\ \A k \in 1..Len(Report.successful) : success(Report.successful[k])
    /\ \A k \in 1..Len(Report.failed) : ~success(Report.failed[k])

\* How many entries of the list s of requests are the request q.
Count(s, q) == Cardinality({k \in 1..Len(s) : s[k] = q})

\* C35: when download returns Ok, the report holds one entry for each
\* Completion the reader read, and nothing else.  Every request written to
\* add-URL either was completed and is in the report or was never completed
\* before add-URL closed its stdout and is in neither list: that one still
\* has the entry of its item in the map, which holds no other entry, and
\* download carries no error.
C35_ReportCount ==
    dlResult = "Ok" =>
        /\ Len(Report.successful) + Len(Report.failed) = Len(readLog)
        /\ Len(readLog) + Len(reqs) = Len(sentLog)
        /\ \A q \in Range(sentLog) :
            Count([n \in 1..Len(ReportEntries) |->
                      AddURLInput(ReportEntries[n].downloadable)], q)
                + Count(reqs, q) = Count(sentLog, q)
        /\ \A k \in 1..Len(reqs) :
            /\ pop_ok(data, reqs[k].path)
            /\ AddURLInput(pop_value(data, reqs[k].path)) = reqs[k]
        /\ Cardinality(data) = Len(reqs)
        /\ dlError = <<>>

\* download has returned Ok with a report of one entry for an input of two
\* items that were both requested: the Completion of the other one never
\* arrived and its entry is still in the map.
C35_Witness ==
    /\ dlPc = "returned"
    /\ dlResult = "Ok"
    /\ Len(sentLog) = 2
    /\ Len(readLog) = 1
    /\ Len(ReportEntries) = 1
    /\ Len(reqs) = 1
    /\ Cardinality(data) = 1
    /\ mainPc # "err"

\* The spawn of subprocess p failed.
SpawnFailed(p) == dlError = <<"Error spawning git-annex", p>>

\* None of the three tasks has been polled.
TasksNotStarted ==
    /\ feed = [pc |-> "start", idx |-> 1]
    /\ reader = "run"
    /\ pp.pc = "recv"
    /\ chan = [queue |-> <<>>, sender |-> TRUE, receiver |-> TRUE]
    /\ data = {}
    /\ <<sentLog, readLog, recvLog, chatLog, dropLog>> = <<<<>>, <<>>, <<>>, <<>>, <<>>>>

\* C36: when the spawn of the metadata or of the register-URL worker fails,
\* download's result is Err, no task is ever started, the failed worker is
\* not spawned and has no teardown, and once download returns every worker
\* spawned before it has been torn down with terminate and ERR_TIMEOUT, the
\* last spawned first.
C36_SpawnFailure ==
    \A p \in {"metadata", "registerurl"} :
        SpawnFailed(p) =>
            /\ dlResult = "Err"
            /\ TasksNotStarted
            /\ ~procs[p].spawned
            /\ procs[p].teardown = "none"
            /\ procs["addurl"].spawned
            /\ procs["metadata"].spawned = (p = "registerurl")
            /\ \A q \in Procs : ~procs[q].stdin_open
            /\ dlPc \in {"return", "returned"} =>
                /\ tdLog = IF p = "metadata" THEN <<"addurl">>
                           ELSE <<"metadata", "addurl">>
                /\ \A q \in Procs :
                    procs[q].spawned =>
                        /\ procs[q].teardown = "terminate"
                        /\ procs[q].timeout = <<ERR_TIMEOUT>>
            /\ dlPc = "returned" => mainPc = "err" /\ exitCode = 1

\* The spawn of register-URL failed and download has returned after the
\* teardown of metadata and then of add-URL.
C36_Witness ==
    /\ SpawnFailed("registerurl")
    /\ dlPc = "returned"
    /\ tdLog = <<"metadata", "addurl">>
    /\ procs["metadata"].teardown = "terminate"
    /\ procs["addurl"].teardown = "terminate"

\* C37: with max_length = N, every line of the stream that ends in a newline
\* is answered, in order, by a frame holding it without one trailing
\* carriage return when at most N bytes precede its newline (a trailing
\* carriage return counted), and by MaxLineLengthExceeded, never a frame,
\* when N + 1 or more bytes do, however the stream is cut into reads: the
\* whole line and its newline in the buffer at the first call included.
C37_LengthBoundary ==
    LET ps == split(lines[1], LF) IN
    /\ \A k \in 1..(Len(ps) - 1) :
        Len(frames) >= k =>
            frames[k] = IF Len(ps[k]) <= codec.max_length
                        THEN OkSome(without_carriage_return(ps[k]))
                        ELSE MaxLineLengthExceeded
    /\ \A line \in BytesUpTo(MaxStreamLen - 1) :
        decode([codec EXCEPT !.next_index = 0, !.is_discarding = FALSE],
               line \o <<LF>>).ret
            = IF Len(line) <= codec.max_length
              THEN OkSome(without_carriage_return(line))
              ELSE MaxLineLengthExceeded

\* A line of N + 1 bytes, the last a carriage return, and its newline were
\* in the buffer at the first call of decode, which returned the error and
\* left the buffer as it was.
C37_Witness ==
    /\ codec.max_length = 1
    /\ lines[1] = <<"a", CR, LF>>
    /\ buf = <<"a", CR, LF>>
    /\ wire = <<>>
    /\ codec.next_index = 0
    /\ codec.is_discarding
    /\ frames = <<MaxLineLengthExceeded>>

\* The scan position is within the part of the buffer that decode searches.
InBounds ==
    codec.next_index <= Min(saturating_add(codec.max_length, 1), Len(buf))

\* C38: over every sequence of reads that append to the buffer and calls of
\* decode and decode_eof, next_index is at most min(max_length + 1, buffer
\* length) before and after every call, so the slice is in bounds and no
\* call panics; next_index is 0 after a call that returned a frame; a call
\* that starts discarding leaves next_index at 0, or, when it went on to
\* read what follows the discarded bytes, at the end of a search that
\* started at the first byte left in the buffer; and no byte of the stream
\* is searched for a newline twice while the codec is not discarding.
C38_ScanPosition ==
    [][ /\ InBounds
        /\ InBounds'
        /\ \A i \in 1..Len(frames') : frames'[i] # Panic
        /\ (frames' # frames /\ Last(frames').is = "Ok(Some)")
            => codec'.next_index = 0
        /\ (codec.is_discarding /\ wire' = wire)
            => IF codec'.is_discarding \/ (frames' # frames /\ Last(frames') # OkNone)
               THEN codec'.next_index = 0
               ELSE /\ Len(scanLog') = Len(scanLog) + codec'.next_index
                    /\ \A k \in 1..codec'.next_index :
                        scanLog'[Len(scanLog) + k] = Len(wire') + Len(buf') - (k - 1)
        /\ (~codec.is_discarding /\ scanLog' # scanLog)
            => scanLog'[Len(scanLog) + 1]
                    = Len(wire) + Len(buf) - codec.next_index
        /\ \A i, j \in 1..Len(scanLog') : scanLog'[i] = scanLog'[j] => i = j
      ]_vars

\* decode searched a whole line, returned it, and in a later search of the
\* byte that follows it stopped at the end of the buffer, where the next
\* search will resume: four bytes, each searched once.
C38_Witness ==
    /\ lines[1] = <<"a", "a", LF, "a">>
    /\ frames = <<OkSome(<<"a", "a">>)>>
    /\ buf = <<"a">>
    /\ codec.next_index = 1
    /\ ~codec.is_discarding
    /\ scanLog = <<4, 3, 2, 1>>

====
